---- MODULE Spec2Model ----
(***************************************************************************)
(* Model of curve-amm-math: the StableSwap kernel (normalized and exact    *)
(* precision modules) and the CryptoSwap kernel, as the library computes   *)
(* them with truncating BigInt arithmetic.                                 *)
(*                                                                         *)
(* The library is a set of pure functions.  Each function is an operator   *)
(* that returns a result record: the value it returns, or the error it     *)
(* throws.  The state machine is a caller: every action draws the          *)
(* arguments of one library call from bounded sets, performs the call and  *)
(* records the call and its outcome.  The two unbounded `while` searches   *)
(* (findPegPoint) are stepped one round per action.                        *)
(*                                                                         *)
(* The source's fixed-point bases are powers of ten (10^18, 10^10, 10^14,  *)
(* 10^12) that the model checker's integers cannot hold.  The model keeps  *)
(* every formula, order of operations and guard of the source and uses     *)
(* smaller powers of ten for those bases; pools, fees and amounts are      *)
(* drawn in the same reduced units.                                        *)
(***************************************************************************)
EXTENDS Integers, Sequences, FiniteSets, TLC

VARIABLES op, pool, arg, res, search, newton

vars == <<op, pool, arg, res, search, newton>>

----------------------------------------------------------------------------
(* Constants (src/src/constants.ts) *)

\* 10n ** 18n in the source; reduced base
PRECISION == 100
\* 10n ** 10n in the source; reduced base
FEE_DENOMINATOR == 100
A_PRECISION == 100
\* 10000n in the source; reduced base
A_MULTIPLIER == 10
MAX_ITERATIONS == 255
\* 10n ** 14n in the source; reduced base
CONVERGENCE_THRESHOLD == 1000
\* 100n in the source (10^-16 of PRECISION); reduced with PRECISION
BPS_DENOMINATOR == 10000

MIN_CONVERGENCE == 2
\* 10n ** 12n in the source; reduced base
DERIVATIVE_EPSILON == 2

----------------------------------------------------------------------------
(* Bounds of the model *)

\* amounts (dx, dy) are drawn from 0..MaxAmount and a few larger ones
MaxAmount == 4

Amounts == 0..MaxAmount

----------------------------------------------------------------------------
(* BigInt arithmetic and call outcomes *)

Abs(a) == IF a < 0 THEN -a ELSE a

\* BigInt `/`: truncates toward zero (b # 0; a zero divisor is a RangeError,
\* which the callers below turn into an error outcome before dividing)
TDiv(a, b) ==
  IF (a >= 0) = (b > 0) THEN Abs(a) \div Abs(b) ELSE -(Abs(a) \div Abs(b))

RECURSIVE Pow(_, _)
Pow(b, e) == IF e = 0 THEN 1 ELSE b * Pow(b, e - 1)

RECURSIVE SumFrom(_, _)
SumFrom(xp, k) == IF k > Len(xp) THEN 0 ELSE xp[k] + SumFrom(xp, k + 1)

Sum(xp) == SumFrom(xp, 1)

HasZero(xp) == \E k \in 1..Len(xp) : xp[k] = 0

\* a call that returned v after `it` loop rounds; conv: the loop's own
\* convergence test was met when it returned
Ret(v, it, conv) == [ok |-> TRUE, val |-> v, err |-> "none", iters |-> it, conv |-> conv]

Val(v) == Ret(v, 0, TRUE)

\* a call that threw
Err(e) == [ok |-> FALSE, val |-> 0, err |-> e, iters |-> 0, conv |-> FALSE]

ErrAt(e, it) == [ok |-> FALSE, val |-> 0, err |-> e, iters |-> it, conv |-> FALSE]

\* array read xp[i] with a 0-based JavaScript index: in range or `undefined`
InRange(xp, i) == i >= 0 /\ i < Len(xp)

At(xp, i) == xp[i + 1]

\* `const v = f(...)` followed by the rest K of the caller: a throw of f ends
\* the caller, a return hands its value to the rest
Bind(r, K(_)) == IF ~r.ok THEN r ELSE K(r.val)

\* the state of a `for` loop between two rounds: still going, with the
\* iterate v and the number of rounds completed, or left (return or throw)
Going(v, it) == [done |-> FALSE, out |-> Val(0), v |-> v, it |-> it]

Stop(r) == [done |-> TRUE, out |-> r, v |-> 0, it |-> r.iters]

RECURSIVE Rounds(_, _, _)
\* at most n further rounds of a loop body Round from loop state s; the
\* rounds are split in halves so that the evaluation stays shallow
Rounds(Round(_), s, n) ==
  IF s.done \/ n = 0 THEN s
  ELSE IF n = 1 THEN Round(s)
  ELSE Rounds(Round, Rounds(Round, s, n \div 2), n - n \div 2)

----------------------------------------------------------------------------
(* Normalized StableSwap (stableswap.ts) *)

\* D_P left at D: the loop over the balances skipped
ss_DP_skipped(xp, D, k, acc) == D

RECURSIVE ss_DP(_, _, _, _)
ss_DP(xp, D, k, acc) ==
  IF k > Len(xp) THEN acc ELSE ss_DP(xp, D, k + 1, TDiv(acc * D, xp[k]))

\* one round of getD's loop: D <- numerator / denominator, `break` when
\* |D - Dprev| <= 1
ss_getD_round(xp, Ann, S, s) ==
  IF HasZero(xp) THEN Stop(ErrAt("RangeError", s.it))
  ELSE
    LET N == Len(xp)
        D == s.v
        D_P == TDiv(ss_DP(xp, D, 1, D), Pow(N, N))
        numerator == (TDiv(Ann * S, A_PRECISION) + D_P * N) * D
        denominator == TDiv((Ann - A_PRECISION) * D, A_PRECISION) + (N + 1) * D_P
    IN IF denominator = 0 THEN Stop(ErrAt("RangeError", s.it))
       ELSE LET Dn == TDiv(numerator, denominator)
            IN IF Abs(Dn - D) <= 1 THEN Stop(Ret(Dn, s.it + 1, TRUE))
               ELSE Going(Dn, s.it + 1)

\* the loop ends after MAX_ITERATIONS rounds and getD returns D either way
ss_getD_loop(xp, Ann, S) ==
  LET Round(s) == ss_getD_round(xp, Ann, S, s)
      e == Rounds(Round, Going(S, 0), MAX_ITERATIONS)
  IN IF e.done THEN e.out ELSE Ret(e.v, e.it, FALSE)

ss_getD(xp, Ann) ==
  LET S == Sum(xp)
  IN IF S = 0 THEN Val(0) ELSE ss_getD_loop(xp, Ann, S)

RECURSIVE ss_getY_S(_, _, _, _, _)
\* S: the sum of _x over k # j, with x in place of xp[i]
ss_getY_S(i, j, x, xp, k) ==
  IF k >= Len(xp) THEN 0
  ELSE IF k = i THEN x + ss_getY_S(i, j, x, xp, k + 1)
  ELSE IF k # j THEN At(xp, k) + ss_getY_S(i, j, x, xp, k + 1)
  ELSE ss_getY_S(i, j, x, xp, k + 1)

\* some divisor _x * N of the accumulation of c is zero
ss_getY_zero(i, j, x, xp) ==
  \E k \in 0..(Len(xp) - 1) :
    \/ k = i /\ x = 0
    \/ k # i /\ k # j /\ At(xp, k) = 0

RECURSIVE ss_getY_c(_, _, _, _, _, _, _)
\* c <- c * D / (_x * N) over k # j
ss_getY_c(i, j, x, xp, D, k, c) ==
  IF k >= Len(xp) THEN c
  ELSE IF k = i THEN ss_getY_c(i, j, x, xp, D, k + 1, TDiv(c * D, x * Len(xp)))
  ELSE IF k # j THEN ss_getY_c(i, j, x, xp, D, k + 1, TDiv(c * D, At(xp, k) * Len(xp)))
  ELSE ss_getY_c(i, j, x, xp, D, k + 1, c)

\* one round: y <- (y^2 + c) / (2y + b - D), `break` when |y - prevY| <= 1
ss_newton_y_round(c, b, D, s) ==
  LET y == s.v
  IN IF 2 * y + b - D = 0 THEN Stop(ErrAt("RangeError", s.it))
     ELSE LET yn == TDiv(y * y + c, 2 * y + b - D)
          IN IF Abs(yn - y) <= 1 THEN Stop(Ret(yn, s.it + 1, TRUE))
             ELSE Going(yn, s.it + 1)

\* the loop ends after MAX_ITERATIONS rounds and the function returns y
\* either way
ss_newton_y(c, b, D) ==
  LET Round(s) == ss_newton_y_round(c, b, D, s)
      e == Rounds(Round, Going(D, 0), MAX_ITERATIONS)
  IN IF e.done THEN e.out ELSE Ret(e.v, e.it, FALSE)

ss_getY(i, j, x, xp, Ann, D) ==
  LET N == Len(xp)
  IN IF ss_getY_zero(i, j, x, xp) THEN Err("RangeError")
     ELSE IF Ann = 0 THEN Err("RangeError")
     ELSE LET S == ss_getY_S(i, j, x, xp, 0)
              c0 == ss_getY_c(i, j, x, xp, D, 0, D)
              c == TDiv(c0 * D * A_PRECISION, Ann * N)
              b == S + TDiv(D * A_PRECISION, Ann)
          IN ss_newton_y(c, b, D)

ss_getYD(i, xp, Ann, D) ==
  LET N == Len(xp)
  IN IF \E k \in 0..(N - 1) : k # i /\ At(xp, k) = 0 THEN Err("RangeError")
     ELSE IF Ann = 0 THEN Err("RangeError")
     ELSE LET S == ss_getY_S(N, i, 0, xp, 0)
              c0 == ss_getY_c(N, i, 0, xp, D, 0, D)
              c == TDiv(c0 * D * A_PRECISION, Ann * N)
              b == S + TDiv(D * A_PRECISION, Ann)
          IN ss_newton_y(c, b, D)

\* the fee with (xpi - xpj)^2 in the place of 4 * xpi * xpj
ss_dynamicFee_peaked(xpi, xpj, baseFee, feeMultiplier) ==
  IF feeMultiplier <= FEE_DENOMINATOR THEN Val(baseFee)
  ELSE IF xpi + xpj = 0 THEN Err("RangeError")
  ELSE Val(TDiv(feeMultiplier * baseFee,
                TDiv((feeMultiplier - FEE_DENOMINATOR) * (xpi - xpj) * (xpi - xpj),
                     (xpi + xpj) * (xpi + xpj)) + FEE_DENOMINATOR))

ss_dynamicFee(xpi, xpj, baseFee, feeMultiplier) ==
  IF feeMultiplier <= FEE_DENOMINATOR THEN Val(baseFee)
  ELSE LET xps2 == (xpi + xpj) * (xpi + xpj)
       IN IF xps2 = 0 THEN Err("RangeError")
          ELSE LET d == TDiv((feeMultiplier - FEE_DENOMINATOR) * 4 * xpi * xpj, xps2)
                        + FEE_DENOMINATOR
               IN IF d = 0 THEN Err("RangeError")
                  ELSE Val(TDiv(feeMultiplier * baseFee, d))

ss_getDy(i, j, dx, xp, Ann, baseFee, feeMultiplier) ==
  IF ~InRange(xp, i) THEN Err("TypeError")
  ELSE
    LET newXi == At(xp, i) + dx
        withFee(dy, fee) == Val(dy - TDiv(dy * fee, FEE_DENOMINATOR))
        withY(y) ==
          IF ~InRange(xp, j) THEN Err("TypeError")
          ELSE LET rest(fee) == withFee(At(xp, j) - y - 1, fee)
               IN Bind(ss_dynamicFee(TDiv(At(xp, i) + newXi, 2), TDiv(At(xp, j) + y, 2),
                                     baseFee, feeMultiplier), rest)
        withD(D) == Bind(ss_getY(i, j, newXi, xp, Ann, D), withY)
    IN Bind(ss_getD(xp, Ann), withD)

ss_getDx(i, j, dy, xp, Ann, baseFee, feeMultiplier) ==
  IF dy = 0 THEN Val(0)
  ELSE IF InRange(xp, j) /\ dy >= At(xp, j) THEN Val(0)
  ELSE
    LET withX(x) ==
          IF ~InRange(xp, i) THEN Err("TypeError")
          ELSE Val(IF x - At(xp, i) + 1 > 0 THEN x - At(xp, i) + 1 ELSE 0)
        withNewY(D, newY) ==
          IF newY <= 0 THEN Val(0) ELSE Bind(ss_getY(j, i, newY, xp, Ann, D), withX)
        withD(D) ==
          IF feeMultiplier > FEE_DENOMINATOR /\ ~(InRange(xp, i) /\ InRange(xp, j))
          THEN Err("TypeError")
          ELSE
            LET withFee(fee) ==
                  IF FEE_DENOMINATOR - fee = 0 THEN Err("RangeError")
                  ELSE IF ~InRange(xp, j) THEN Err("TypeError")
                  ELSE withNewY(D, At(xp, j) - TDiv(dy * FEE_DENOMINATOR, FEE_DENOMINATOR - fee))
            IN Bind(IF feeMultiplier <= FEE_DENOMINATOR THEN Val(baseFee)
                    ELSE ss_dynamicFee(At(xp, i), At(xp, j), baseFee, feeMultiplier), withFee)
    IN Bind(ss_getD(xp, Ann), withD)

----------------------------------------------------------------------------
(* Exact-precision StableSwap (stableswap-exact.ts) *)

getXp(balances, rates) ==
  [k \in 1..Len(balances) |-> TDiv(rates[k] * balances[k], PRECISION)]

ex_getD_round(xp, Ann, S, s) ==
  LET N == Len(xp)
      D == s.v
      D_P == TDiv(ss_DP(xp, D, 1, D), Pow(N, N))
      numerator == (TDiv(Ann * S, A_PRECISION) + D_P * N) * D
      denominator == TDiv((Ann - A_PRECISION) * D, A_PRECISION) + (N + 1) * D_P
  IN IF denominator = 0 THEN Stop(ErrAt("RangeError", s.it))
     ELSE LET Dn == TDiv(numerator, denominator)
          IN IF Abs(Dn - D) <= 1 THEN Stop(Ret(Dn, s.it + 1, TRUE))
             ELSE Going(Dn, s.it + 1)

\* 255 rounds without a return: throw "get_D did not converge"
ex_getD_loop(xp, Ann, S) ==
  LET Round(s) == ex_getD_round(xp, Ann, S, s)
      e == Rounds(Round, Going(S, 0), 255)
  IN IF e.done THEN e.out ELSE ErrAt("NO_CONVERGE", e.it)

ex_getD(xp, amp, nCoins) ==
  IF nCoins < 2 THEN Err("INVALID_NCOINS")
  ELSE IF Len(xp) # nCoins THEN Err("INVALID_LENGTH")
  ELSE IF amp = 0 THEN Err("INVALID_A")
  ELSE LET S == Sum(xp)
       IN IF S = 0 THEN Val(0)
          ELSE IF HasZero(xp) THEN Err("ZERO_BALANCE")
          ELSE ex_getD_loop(xp, amp * nCoins, S)

ex_newton_y_round(c, b, D, s) ==
  LET y == s.v
      denom == 2 * y + b - D
  IN IF denom <= 0 THEN Stop(ErrAt("BAD_DENOM", s.it))
     ELSE LET yn == TDiv(y * y + c, denom)
          IN IF Abs(yn - y) <= 1 THEN Stop(Ret(yn, s.it + 1, TRUE))
             ELSE Going(yn, s.it + 1)

\* 255 rounds without a return: throw "did not converge"
ex_newton_y(c, b, D) ==
  LET Round(s) == ex_newton_y_round(c, b, D, s)
      e == Rounds(Round, Going(D, 0), 255)
  IN IF e.done THEN e.out ELSE ErrAt("NO_CONVERGE", e.it)

ex_getY(i, j, x, xp, amp, D, nCoins) ==
  IF nCoins < 2 THEN Err("INVALID_NCOINS")
  ELSE IF Len(xp) # nCoins THEN Err("INVALID_LENGTH")
  ELSE IF i = j THEN Err("INVALID_INDEX")
  ELSE IF i < 0 \/ i >= nCoins \/ j < 0 \/ j >= nCoins THEN Err("INVALID_INDEX")
  ELSE IF amp = 0 THEN Err("INVALID_A")
  ELSE IF ss_getY_zero(i, j, x, xp) THEN Err("ZERO_BALANCE")
  ELSE LET Ann == amp * nCoins
           S_ == ss_getY_S(i, j, x, xp, 0)
           c0 == ss_getY_c(i, j, x, xp, D, 0, D)
           c == TDiv(c0 * D * A_PRECISION, Ann * nCoins)
           b == S_ + TDiv(D * A_PRECISION, Ann)
       IN ex_newton_y(c, b, D)

ex_getYD(amp, i, xp, D, nCoins) ==
  IF nCoins < 2 THEN Err("INVALID_NCOINS")
  ELSE IF Len(xp) # nCoins THEN Err("INVALID_LENGTH")
  ELSE IF i < 0 \/ i >= nCoins THEN Err("INVALID_INDEX")
  ELSE IF amp = 0 THEN Err("INVALID_A")
  ELSE IF \E k \in 0..(nCoins - 1) : k # i /\ At(xp, k) = 0 THEN Err("ZERO_BALANCE")
  ELSE LET Ann == amp * nCoins
           S_ == ss_getY_S(nCoins, i, 0, xp, 0)
           c0 == ss_getY_c(nCoins, i, 0, xp, D, 0, D)
           c == TDiv(c0 * D * A_PRECISION, Ann * nCoins)
           b == S_ + TDiv(D * A_PRECISION, Ann)
       IN ex_newton_y(c, b, D)

\* the fee with 2 * xpi * xpj in the place of 4 * xpi * xpj
ex_dynamicFee_halfWeight(xpi, xpj, fee, feeMultiplier) ==
  IF feeMultiplier <= FEE_DENOMINATOR THEN Val(fee)
  ELSE IF xpi + xpj = 0 THEN Val(fee)
  ELSE Val(TDiv(feeMultiplier * fee,
                TDiv((feeMultiplier - FEE_DENOMINATOR) * 2 * xpi * xpj,
                     (xpi + xpj) * (xpi + xpj)) + FEE_DENOMINATOR))

ex_dynamicFee(xpi, xpj, fee, feeMultiplier) ==
  IF feeMultiplier <= FEE_DENOMINATOR THEN Val(fee)
  ELSE LET xps2 == (xpi + xpj) * (xpi + xpj)
       IN IF xps2 = 0 THEN Val(fee)
          ELSE LET d == TDiv((feeMultiplier - FEE_DENOMINATOR) * 4 * xpi * xpj, xps2)
                        + FEE_DENOMINATOR
               IN IF d = 0 THEN Err("RangeError")
                  ELSE Val(TDiv(feeMultiplier * fee, d))

\* dy computed with the sign of y flipped
ex_dyRaw_signFlipped(xpj, y) == xpj + y - 1

\* step 6 of getDyExact: dy = xp[j] - y - 1
ex_dyRaw(xpj, y) == xpj - y - 1

\* the guards without the `amount === 0n` one
ex_invalid_noZeroAmount(i, j, amount, nCoins) ==
  i = j \/ i < 0 \/ i >= nCoins \/ j < 0 \/ j >= nCoins

\* the guards at the head of getDyExact and getDxExact, each a `return 0n`:
\* i === j, an index outside [0, N), a zero amount
ex_invalid(i, j, amount, nCoins) ==
  i = j \/ i < 0 \/ i >= nCoins \/ j < 0 \/ j >= nCoins \/ amount = 0

getDyExact(i, j, dx, params) ==
  LET balances == params.balances
      rates == params.rates
      nCoins == Len(balances)
  IN IF ex_invalid(i, j, dx, nCoins) THEN Val(0)
     ELSE IF At(rates, i) = 0 \/ At(rates, j) = 0 THEN Val(0)
     ELSE IF Len(balances) # Len(rates) THEN Err("INVALID_LENGTH")
     ELSE
       LET xp == getXp(balances, rates)
           amp == params.A * A_PRECISION
           x == At(xp, i) + TDiv(dx * At(rates, i), PRECISION)
           withFee(dy, fee) ==
             LET feeAmount == TDiv(fee * dy, FEE_DENOMINATOR)
                 result == TDiv((dy - feeAmount) * PRECISION, At(rates, j))
             IN Val(IF result > 0 THEN result ELSE 0)
           withDy(y, dy) ==
             IF dy <= 0 THEN Val(0)
             ELSE LET rest(fee) == withFee(dy, fee)
                  IN Bind(ex_dynamicFee(TDiv(At(xp, i) + x, 2), TDiv(At(xp, j) + y, 2),
                                        params.fee, params.offpegFeeMultiplier), rest)
           withY(y) == withDy(y, ex_dyRaw(At(xp, j), y))
           withD(D) == Bind(ex_getY(i, j, x, xp, amp, D, nCoins), withY)
       IN Bind(ex_getD(xp, amp, nCoins), withD)

RECURSIVE SeqMax(_, _, _)
SeqMax(s, k, acc) ==
  IF k > Len(s) THEN acc ELSE SeqMax(s, k + 1, IF acc > s[k] THEN acc ELSE s[k])

RECURSIVE ex_expand(_, _, _, _, _, _)
\* up to 10 doublings of high while getDyExact(high) < dy; a throwing oracle
\* ends the call
ex_expand(i, j, dy, params, high, k) ==
  IF k = 10 THEN Val(high)
  ELSE LET rest(dyAtHigh) ==
             IF dyAtHigh >= dy THEN Val(high)
             ELSE ex_expand(i, j, dy, params, high * 2, k + 1)
       IN Bind(getDyExact(i, j, high, params), rest)

\* the lower endpoint returned in place of the upper one
ex_narrowed_lower(low, high) == low

\* the upper endpoint padded by one unit
ex_narrowed_padded(low, high) == high + 1

\* what the search returns when the interval has narrowed (mid = low)
ex_narrowed(low, high) == high

RECURSIVE ex_bisect(_, _, _, _, _, _, _)
ex_bisect(i, j, dy, params, low, high, k) ==
  IF k = 256 THEN Ret(high, k, FALSE)
  ELSE IF TDiv(low + high, 2) = low THEN Ret(ex_narrowed(low, high), k, TRUE)
  ELSE LET rest(dyMid) ==
             IF dyMid < dy THEN ex_bisect(i, j, dy, params, TDiv(low + high, 2), high, k + 1)
             ELSE ex_bisect(i, j, dy, params, low, TDiv(low + high, 2), k + 1)
       IN Bind(getDyExact(i, j, TDiv(low + high, 2), params), rest)

getDxExact(i, j, dy, params) ==
  LET balances == params.balances
      rates == params.rates
      nCoins == Len(balances)
  IN IF ex_invalid(i, j, dy, nCoins) THEN Val(0)
     ELSE IF At(rates, i) = 0 \/ At(rates, j) = 0 THEN Val(0)
     ELSE
       LET withHigh(high) ==
             LET rest(dyAtHigh) ==
                   IF dyAtHigh < dy THEN Val(0) ELSE ex_bisect(i, j, dy, params, 0, high, 0)
             IN Bind(getDyExact(i, j, high, params), rest)
       IN Bind(ex_expand(i, j, dy, params, SeqMax(balances, 1, 0) * 10, 0), withHigh)

----------------------------------------------------------------------------
(* CryptoSwap (cryptoswap.ts) *)

Max2(a, b) == IF a > b THEN a ELSE b

\* the halving without its floor
cs_halve_unfloored(y_prev) == TDiv(y_prev, 2)

\* y_prev / 2n, floored at 1: the response to an overshoot
cs_halve(y_prev) == IF TDiv(y_prev, 2) = 0 THEN 1 ELSE TDiv(y_prev, 2)

\* _g1k0 = |gamma + PRECISION - K0| + 1
cs_g1k0(gamma, K0) ==
  IF gamma + PRECISION > K0 THEN gamma + PRECISION - K0 + 1 ELSE K0 - (gamma + PRECISION) + 1

cs_mul1(A, gamma, D, g1k0) ==
  TDiv(TDiv(TDiv(PRECISION * D, gamma) * g1k0, gamma) * g1k0 * A_MULTIPLIER, A)

\* the end of a round: y is the new iterate; return it when it moved by
\* less than max(convergence_limit, y / CONVERGENCE_THRESHOLD)
cs_round_test(convergence_limit, s, y) ==
  IF Abs(y - s.v) < Max2(convergence_limit, TDiv(y, CONVERGENCE_THRESHOLD))
  THEN Stop(Ret(y, s.it + 1, TRUE))
  ELSE Going(y, s.it + 1)

\* y <- y_prev / 2 when y_plus < y_minus, else y_plus - y_minus; never 0
cs_round_next(convergence_limit, s, y_plus, y_minus) ==
  cs_round_test(convergence_limit, s,
                IF y_plus < y_minus THEN cs_halve(s.v)
                ELSE IF y_plus - y_minus = 0 THEN 1
                ELSE y_plus - y_minus)

\* the guards on fprime and K0, then y_minus_base, y_plus and y_minus
cs_round_y(D, convergence_limit, s, K0, mul1, S, yfprime, fprime) ==
  IF fprime = 0 THEN Stop(ErrAt("ZERO_FPRIME", s.it))
  ELSE IF K0 = 0 THEN Stop(ErrAt("ZERO_K0", s.it))
  ELSE cs_round_next(convergence_limit, s,
                     TDiv(yfprime + PRECISION * D, fprime)
                       + TDiv(TDiv(mul1, fprime) * PRECISION, K0),
                     TDiv(mul1, fprime) + TDiv(PRECISION * S, fprime))

\* yfprime_base < _dyfprime: halve y and `continue`; else the guard on y,
\* yfprime and fprime = yfprime / y
cs_round_fp(D, convergence_limit, s, K0, mul1, S, yfprime_base, dyfprime) ==
  IF yfprime_base < dyfprime THEN Going(cs_halve(s.v), s.it + 1)
  ELSE IF s.v = 0 THEN Stop(ErrAt("ZERO_Y", s.it))
  ELSE cs_round_y(D, convergence_limit, s, K0, mul1, S,
                  yfprime_base - dyfprime, TDiv(yfprime_base - dyfprime, s.v))

\* yfprime_base = PRECISION * y + S * mul2 + mul1 and _dyfprime = D * mul2
cs_round_mul(D, convergence_limit, s, K0, mul1, mul2, S) ==
  cs_round_fp(D, convergence_limit, s, K0, mul1, S,
              PRECISION * s.v + S * mul2 + mul1, D * mul2)

\* mul1 and mul2 = PRECISION + 2 * PRECISION * K0 / _g1k0
cs_round_g(A, gamma, D, convergence_limit, s, K0, g1k0, S) ==
  cs_round_mul(D, convergence_limit, s, K0, cs_mul1(A, gamma, D, g1k0),
               PRECISION + TDiv(2 * PRECISION * K0, g1k0), S)

cs_round_K0(A, gamma, D, convergence_limit, s, K0, S) ==
  cs_round_g(A, gamma, D, convergence_limit, s, K0, cs_g1k0(gamma, K0), S)

\* one round of the Newton loop shared by newtonY (N = 2, S0 = x_j) and
\* newtonY3 (N = 3, S0 = the sum of the two other balances), from the
\* iterate y = s.v: K0 = K0_i * y * N / D, S = S0 + y, then the stages above
cs_newton_round(N, A, gamma, S0, D, K0_i, convergence_limit, s) ==
  cs_round_K0(A, gamma, D, convergence_limit, s, TDiv(K0_i * s.v * N, D), S0 + s.v)

\* the quantities a round computes from the iterate y before its first test
cs_terms_m(K0, g1k0, mul1, mul2, S, yfprime_base, dyfprime) ==
  [K0 |-> K0, g1k0 |-> g1k0, mul1 |-> mul1, mul2 |-> mul2, S |-> S,
   yfprime_base |-> yfprime_base, dyfprime |-> dyfprime]

cs_terms_g(D, y, K0, g1k0, mul1, mul2, S) ==
  cs_terms_m(K0, g1k0, mul1, mul2, S, PRECISION * y + S * mul2 + mul1, D * mul2)

cs_terms_K0(A, gamma, D, y, K0, g1k0, S) ==
  cs_terms_g(D, y, K0, g1k0, cs_mul1(A, gamma, D, g1k0),
             PRECISION + TDiv(2 * PRECISION * K0, g1k0), S)

cs_terms(N, A, gamma, S0, D, K0_i, y) ==
  cs_terms_K0(A, gamma, D, y, TDiv(K0_i * y * N, D),
              cs_g1k0(gamma, TDiv(K0_i * y * N, D)), S0 + y)

\* fprime = yfprime / y, read after the guard on y
cs_fprime(t, y) == TDiv(t.yfprime_base - t.dyfprime, y)

\* the round's first overshoot test: yfprime would be negative
cs_overshoot1(t) == t.yfprime_base < t.dyfprime

\* the round's second overshoot test, reached past the guards on y, fprime
\* and K0: y_plus < y_minus
cs_overshoot2(D, y, t) ==
  /\ ~cs_overshoot1(t)
  /\ y # 0
  /\ cs_fprime(t, y) # 0
  /\ t.K0 # 0
  /\ TDiv(t.yfprime_base - t.dyfprime + PRECISION * D, cs_fprime(t, y))
       + TDiv(TDiv(t.mul1, cs_fprime(t, y)) * PRECISION, t.K0)
     < TDiv(t.mul1, cs_fprime(t, y)) + TDiv(PRECISION * t.S, cs_fprime(t, y))

\* the tail of the divisors below, with the guard on K0 left out
cs_late_divisors_unguarded(y, t) ==
  IF cs_fprime(t, y) = 0 THEN <<>>
  ELSE <<cs_fprime(t, y), cs_fprime(t, y), t.K0, cs_fprime(t, y)>>

\* the divisors of y_minus_base, y_plus and y_minus, in the order the round
\* divides by them; none when the guard on fprime or on K0 throws first
cs_late_divisors(y, t) ==
  IF cs_fprime(t, y) = 0 \/ t.K0 = 0 THEN <<>>
  ELSE <<cs_fprime(t, y), cs_fprime(t, y), t.K0, cs_fprime(t, y)>>

\* every divisor one round divides by from the iterate y, in order: D (K0),
\* gamma twice and A (mul1), _g1k0 (mul2); then, unless the round halves y
\* and continues or the guard on y throws, y (fprime) and the late divisors
cs_round_divisors(A, gamma, D, y, t) ==
  <<D, gamma, gamma, A, t.g1k0>>
    \o (IF cs_overshoot1(t) \/ y = 0 THEN <<>> ELSE <<y>> \o cs_late_divisors(y, t))

\* the divisors newtonY divides by before its loop: x_j * 4 (the first
\* estimate), then D (K0_i) unless the first estimate is 0
newtonY_entry_divisors(A, gamma, x, D, i) ==
  IF i < 0 \/ i > 1 \/ Len(x) # 2 \/ A = 0 \/ gamma = 0 THEN <<>>
  ELSE IF At(x, 1 - i) = 0 \/ D = 0 THEN <<>>
  ELSE IF TDiv(D * D, At(x, 1 - i) * 2 * 2) = 0 THEN <<At(x, 1 - i) * 2 * 2>>
  ELSE <<At(x, 1 - i) * 2 * 2, D>>

HasZeroDivisor(ds) == \E k \in 1..Len(ds) : ds[k] = 0

\* a BigInt division by 0n: the RangeError the runtime throws
DivisionFault(it) == ErrAt("RangeError", it)

\* MAX_ITERATIONS rounds without a return: throw "did not converge"
cs_newton_loop(N, A, gamma, S0, D, K0_i, convergence_limit, y) ==
  LET Round(s) == cs_newton_round(N, A, gamma, S0, D, K0_i, convergence_limit, s)
      e == Rounds(Round, Going(y, 0), MAX_ITERATIONS)
  IN IF e.done THEN e.out ELSE ErrAt("NO_CONVERGE", e.it)

\* the loop's starting point: the first estimate y, S0, K0_i and the
\* convergence limit
cs_entry(y, S0, K0_i, convergence_limit) ==
  [ok |-> TRUE, y |-> y, S0 |-> S0, K0_i |-> K0_i, limit |-> convergence_limit]

\* newtonY up to its loop: the guards that throw, or the loop's starting point
newtonY_entry(A, gamma, x, D, i) ==
  IF i < 0 \/ i > 1 THEN Err("INVALID_INDEX")
  ELSE IF Len(x) # 2 THEN Err("INVALID_LENGTH")
  ELSE IF A = 0 THEN Err("INVALID_A")
  ELSE IF gamma = 0 THEN Err("INVALID_GAMMA")
  ELSE
    LET x_j == At(x, 1 - i)
    IN IF x_j = 0 THEN Err("ZERO_BALANCE")
       ELSE IF D = 0 THEN Err("ZERO_D")
       ELSE
         LET y == TDiv(D * D, x_j * 2 * 2)
         IN IF y = 0 THEN Err("ZERO_Y")
            ELSE
              LET K0_i == TDiv(PRECISION * 2 * x_j, D)
                  m == Max2(TDiv(x_j, CONVERGENCE_THRESHOLD), TDiv(D, CONVERGENCE_THRESHOLD))
                  convergence_limit == IF m < MIN_CONVERGENCE THEN MIN_CONVERGENCE ELSE m
              IN cs_entry(y, x_j, K0_i, convergence_limit)

\* the loop from the starting point e
cs_newton_from(N, A, gamma, D, e) ==
  IF ~e.ok THEN e
  ELSE cs_newton_loop(N, A, gamma, e.S0, D, e.K0_i, e.limit, e.y)

newtonY(A, gamma, x, D, i) ==
  cs_newton_from(2, A, gamma, D, newtonY_entry(A, gamma, x, D, i))

\* the two balances other than x[i], in index order
cs_others(x, i) == IF i = 0 THEN <<x[2], x[3]>> ELSE IF i = 1 THEN <<x[1], x[3]>> ELSE <<x[1], x[2]>>

\* newtonY3 up to its loop
newtonY3_entry(A, gamma, x, D, i) ==
  IF i < 0 \/ i > 2 THEN Err("INVALID_INDEX")
  ELSE IF Len(x) # 3 THEN Err("INVALID_LENGTH")
  ELSE IF A = 0 THEN Err("INVALID_A")
  ELSE IF gamma = 0 THEN Err("INVALID_GAMMA")
  ELSE IF D = 0 THEN Err("ZERO_D")
  ELSE
    LET o == cs_others(x, i)
    IN IF o[1] = 0 \/ o[2] = 0 THEN Err("ZERO_BALANCE")
       ELSE
         LET S == o[1] + o[2]
             prod == TDiv(TDiv(PRECISION * o[1], PRECISION) * o[2], PRECISION)
             D_squared_scaled == TDiv(D * D, PRECISION)
         IN IF D_squared_scaled = 0 THEN Err("INSUFFICIENT_LIQUIDITY")
            ELSE IF prod = 0 THEN Err("ZERO_PROD")
            ELSE
              LET y == TDiv(TDiv(D * D, prod) * D, 27 * PRECISION)
                  K0_i == TDiv(PRECISION * 9 * prod, D_squared_scaled)
                  m == Max2(TDiv(D, CONVERGENCE_THRESHOLD),
                            Max2(TDiv(o[1], CONVERGENCE_THRESHOLD),
                                 TDiv(o[2], CONVERGENCE_THRESHOLD)))
                  convergence_limit == IF m < MIN_CONVERGENCE THEN MIN_CONVERGENCE ELSE m
              IN cs_entry(y, S, K0_i, convergence_limit)

newtonY3(A, gamma, x, D, i) ==
  cs_newton_from(3, A, gamma, D, newtonY3_entry(A, gamma, x, D, i))

RECURSIVE cs_K(_, _, _, _)
\* K <- K * x / d over the balances
cs_K(xp, d, k, acc) ==
  IF k > Len(xp) THEN acc ELSE cs_K(xp, d, k + 1, TDiv(acc * xp[k], d))

\* the end of a round of calcD: return D when |D - D_prev| * CONVERGENCE_THRESHOLD < D
calcD_test(s, D) ==
  IF Abs(D - s.v) * CONVERGENCE_THRESHOLD < D THEN Stop(Ret(D, s.it + 1, TRUE))
  ELSE Going(D, s.it + 1)

calcD_next(s, D_plus, D_minus) ==
  calcD_test(s, IF D_plus > D_minus THEN D_plus - D_minus ELSE TDiv(D_minus - D_plus, 2))

\* the guard on neg_fprime, then D_plus and D_minus
calcD_fp(S, s, neg_fprime) ==
  IF neg_fprime = 0 THEN Stop(ErrAt("ZERO_FPRIME", s.it))
  ELSE calcD_next(s, TDiv(s.v * (neg_fprime + S), neg_fprime), TDiv(s.v * s.v, neg_fprime))

calcD_mul(N, S, s, mul1, mul2) ==
  calcD_fp(S, s, S + TDiv(S * mul2, PRECISION) + TDiv(mul1 * N, s.v) - (PRECISION + mul2) * N)

calcD_g(N, A, gamma, S, s, K0, g1k0) ==
  calcD_mul(N, S, s, cs_mul1(A, gamma, s.v, g1k0), TDiv(2 * PRECISION * K0, g1k0))

calcD_K0(N, A, gamma, S, s, K0) ==
  calcD_g(N, A, gamma, S, s, K0, cs_g1k0(gamma, K0))

\* one round of calcD's loop from D = s.v: K0 = N^N * PRECISION * prod(x) / D^N,
\* then the stages above
calcD_round(A, gamma, xp, S, s) ==
  IF s.v = 0 THEN Stop(ErrAt("RangeError", s.it))
  ELSE calcD_K0(Len(xp), A, gamma, S, s, cs_K(xp, s.v, 1, Pow(Len(xp), Len(xp)) * PRECISION))

\* MAX_ITERATIONS rounds without a return: throw "did not converge"
calcD_loop(A, gamma, xp, S) ==
  LET Round(s) == calcD_round(A, gamma, xp, S, s)
      e == Rounds(Round, Going(S, 0), MAX_ITERATIONS)
  IN IF e.done THEN e.out ELSE ErrAt("NO_CONVERGE", e.it)

calcD(A, gamma, xp) ==
  IF A = 0 THEN Err("INVALID_A")
  ELSE IF gamma = 0 THEN Err("INVALID_GAMMA")
  ELSE IF Len(xp) < 2 THEN Err("INVALID_LENGTH")
  ELSE LET S == Sum(xp)
       IN IF S = 0 THEN Val(0)
          ELSE IF HasZero(xp) THEN Err("ZERO_BALANCE")
          ELSE calcD_loop(A, gamma, xp, S)

\* the blend with the weight of outFee taken as PRECISION + f
cs_blend_signFlipped(f, midFee, outFee) ==
  TDiv(midFee * f + outFee * (PRECISION + f), PRECISION)

\* (midFee * f + outFee * (PRECISION - f)) / PRECISION
cs_blend(f, midFee, outFee) ==
  TDiv(midFee * f + outFee * (PRECISION - f), PRECISION)

cs_dynamicFee(xp, feeGamma, midFee, outFee) ==
  LET N == Len(xp)
      sum == Sum(xp)
  IN IF sum = 0 THEN midFee
     ELSE LET K == cs_K(xp, sum, 1, PRECISION * Pow(N, N))
              denominator == feeGamma + PRECISION - K
          IN IF denominator <= 0 THEN outFee
             ELSE LET f == TDiv(feeGamma * PRECISION, denominator)
                  IN cs_blend(f, midFee, outFee)

scaleBalances(balances, precisions, priceScale) ==
  << balances[1] * precisions[1],
     TDiv(balances[2] * precisions[2] * priceScale, PRECISION) >>

scaleBalances3(balances, precisions, priceScales) ==
  << balances[1] * precisions[1],
     TDiv(balances[2] * precisions[2] * priceScales[1], PRECISION),
     TDiv(balances[3] * precisions[3] * priceScales[2], PRECISION) >>

unscaleOutput2(dy, j, precisions, priceScale) ==
  IF At(precisions, j) = 0 THEN 0
  ELSE IF j = 0 THEN TDiv(dy, precisions[1])
  ELSE IF priceScale = 0 THEN 0
  ELSE TDiv(dy * PRECISION, precisions[2] * priceScale)

unscaleOutput3(dy, j, precisions, priceScales) ==
  IF At(precisions, j) = 0 THEN 0
  ELSE IF j = 0 THEN TDiv(dy, precisions[1])
  ELSE IF j = 1 THEN (IF priceScales[1] = 0 THEN 0
                      ELSE TDiv(dy * PRECISION, precisions[2] * priceScales[1]))
  ELSE IF priceScales[2] = 0 THEN 0
  ELSE TDiv(dy * PRECISION, precisions[3] * priceScales[2])

\* dy = dy - dy * fee / FEE_DENOMINATOR
cs_afterFee(dy, fee) == dy - TDiv(dy * fee, FEE_DENOMINATOR)

\* the two clamps around the conversion back to external units
cs_clamp(dy) == Val(IF dy > 0 THEN dy ELSE 0)

cs_getDy(params, i, j, dx) ==
  IF i = j THEN Val(0)
  ELSE IF i < 0 \/ i > 1 \/ j < 0 \/ j > 1 THEN Val(0)
  ELSE IF dx = 0 THEN Val(0)
  ELSE
    LET newBalances == [params.balances EXCEPT ![i + 1] = @ + dx]
        xp == scaleBalances(newBalances, params.precisions, params.priceScale)
        withFee(dy) ==
          IF dy <= 0 THEN Val(0)
          ELSE cs_clamp(unscaleOutput2(dy, j, params.precisions, params.priceScale))
        withDy(y, dy) ==
          IF dy < 0 THEN Val(0)
          ELSE withFee(cs_afterFee(dy, cs_dynamicFee([xp EXCEPT ![j + 1] = y], params.feeGamma,
                                                     params.midFee, params.outFee)))
        withY(y) == withDy(y, At(xp, j) - y - 1)
    IN Bind(newtonY(params.A, params.gamma, xp, params.D, j), withY)

cs_getDy3(params, i, j, dx) ==
  IF i = j THEN Val(0)
  ELSE IF i < 0 \/ i > 2 \/ j < 0 \/ j > 2 THEN Val(0)
  ELSE IF dx = 0 THEN Val(0)
  ELSE
    LET newBalances == [params.balances EXCEPT ![i + 1] = @ + dx]
        xp == scaleBalances3(newBalances, params.precisions, params.priceScales)
        withFee(dy) ==
          IF dy <= 0 THEN Val(0)
          ELSE cs_clamp(unscaleOutput3(dy, j, params.precisions, params.priceScales))
        withDy(y, dy) ==
          IF dy < 0 THEN Val(0)
          ELSE withFee(cs_afterFee(dy, cs_dynamicFee([xp EXCEPT ![j + 1] = y], params.feeGamma,
                                                     params.midFee, params.outFee)))
        withY(y) == withDy(y, At(xp, j) - y - 1)
    IN Bind(newtonY3(params.A, params.gamma, xp, params.D, j), withY)

\* getDy for a 2-coin pool, getDy3 for a 3-coin pool
cs_dyN(params, i, j, dx) ==
  IF Len(params.balances) = 2 THEN cs_getDy(params, i, j, dx) ELSE cs_getDy3(params, i, j, dx)

\* the probe amount of the spot price: DERIVATIVE_EPSILON / precisions[i], at least 1
cs_safeDx(dx) == IF dx > 0 THEN dx ELSE 1

\* getSpotPrice (2 coins) and getSpotPrice3 (3 coins)
cs_spot(params, i, j) ==
  LET n == Len(params.balances)
  IN IF i = j THEN Val(0)
     ELSE IF i < 0 \/ i > n - 1 \/ j < 0 \/ j > n - 1 THEN Val(0)
     ELSE IF At(params.precisions, i) = 0 THEN Val(0)
     ELSE LET safeDx == cs_safeDx(TDiv(DERIVATIVE_EPSILON, At(params.precisions, i)))
              rest(dy) == Val(TDiv(dy * PRECISION, safeDx))
          IN Bind(cs_dyN(params, i, j, safeDx), rest)

getSpotPrice(params, i, j) == cs_spot(params, i, j)

getSpotPrice3(params, i, j) == cs_spot(params, i, j)

RECURSIVE cs_expand(_, _, _, _, _, _)
cs_expand(params, i, j, dy, high, k) ==
  IF k = 10 THEN Val(high)
  ELSE LET rest(dyAtHigh) ==
             IF dyAtHigh >= dy THEN Val(high)
             ELSE cs_expand(params, i, j, dy, high * 2, k + 1)
       IN Bind(cs_dyN(params, i, j, high), rest)

RECURSIVE cs_bisect(_, _, _, _, _, _, _, _)
cs_bisect(params, i, j, dy, tolerance, low, high, it) ==
  IF it = MAX_ITERATIONS THEN Ret(high, it, FALSE)
  ELSE
    LET mid == TDiv(low + high, 2)
        rest(dyCalc) ==
          IF dyCalc >= dy
          THEN IF dyCalc - dy <= tolerance
               THEN \* high = mid; return mid once the interval is one unit wide
                    IF mid - low <= 1 THEN Ret(mid, it + 1, TRUE)
                    ELSE cs_bisect(params, i, j, dy, tolerance, low, mid, it + 1)
               ELSE \* high = mid; break once the interval is one unit wide
                    IF mid - low <= 1 THEN Ret(mid, it + 1, TRUE)
                    ELSE cs_bisect(params, i, j, dy, tolerance, low, mid, it + 1)
          ELSE \* low = mid
               IF high - mid <= 1 THEN Ret(high, it + 1, TRUE)
               ELSE cs_bisect(params, i, j, dy, tolerance, mid, high, it + 1)
    IN Bind(cs_dyN(params, i, j, mid), rest)

\* the first upper bound of the search, from the spot price or the balance
cs_high0(params, i, dy, spotPrice) ==
  IF spotPrice > 0 THEN TDiv(dy * PRECISION * 2, spotPrice) ELSE At(params.balances, i) * 10

\* getDx (2 coins) and getDx3 (3 coins)
cs_dx(params, i, j, dy) ==
  LET n == Len(params.balances)
  IN IF i = j THEN Val(0)
     ELSE IF i < 0 \/ i > n - 1 \/ j < 0 \/ j > n - 1 THEN Val(0)
     ELSE IF dy = 0 THEN Val(0)
     ELSE IF dy >= At(params.balances, j) THEN Val(0)
     ELSE
       LET tolerance == IF TDiv(dy, 10000) > 0 THEN TDiv(dy, 10000) ELSE 1
           withHigh(high) ==
             LET rest(dyAtFinalHigh) ==
                   IF dyAtFinalHigh < dy THEN Val(0)
                   ELSE cs_bisect(params, i, j, dy, tolerance, 0, high, 0)
             IN Bind(cs_dyN(params, i, j, high), rest)
           withHigh0(high) ==
             Bind(cs_expand(params, i, j, dy, IF high = 0 THEN PRECISION ELSE high, 0), withHigh)
           withSpot(spotPrice) == withHigh0(cs_high0(params, i, dy, spotPrice))
       IN Bind(cs_spot(params, i, j), withSpot)

cs_getDx(params, i, j, dy) == cs_dx(params, i, j, dy)

cs_getDx3(params, i, j, dy) == cs_dx(params, i, j, dy)

----------------------------------------------------------------------------
(* Peg-point searches: the `while (high - low > precision)` loops *)

computeAnn(A, nCoins) == A * A_PRECISION * nCoins

\* no search running. A running search holds its interval as low and high in
\* units of 2^exp; the peg searches and the in-call searches keep exp = 0
\* no Newton loop is running
NoNewton == [active |-> FALSE, y |-> 0, prev |-> 0, rounds |-> 0, halved |-> FALSE]

NoSearch == [active |-> FALSE, low |-> 0, high |-> 0, rounds |-> 0, exp |-> 0]

\* stableswap.ts findPegPoint up to the loop: the early return or the
\* initial interval
\* (a comparison with `undefined` is false; the subtraction then throws)
ss_pegStart(i, j, xp) ==
  IF ~InRange(xp, i) \/ ~InRange(xp, j)
  THEN [ret |-> TRUE, out |-> Err("TypeError"), low |-> 0, high |-> 0]
  ELSE IF At(xp, i) >= At(xp, j) THEN [ret |-> TRUE, out |-> Val(0), low |-> 0, high |-> 0]
  ELSE [ret |-> FALSE, out |-> Val(0), low |-> 0, high |-> At(xp, j) - At(xp, i)]

\* a loop body that moves low on the feasibility test `dy > 0`
pegRound_anyOutput(low, high, dy) ==
  LET mid == TDiv(low + high, 2)
  IN IF dy > 0 THEN [low |-> mid, high |-> high] ELSE [low |-> low, high |-> mid]

\* one round of the loop body: the oracle's answer moves low or high
pegRound(low, high, dy) ==
  LET mid == TDiv(low + high, 2)
  IN IF dy >= mid THEN [low |-> mid, high |-> high] ELSE [low |-> low, high |-> mid]

\* cryptoswap.ts findPegPoint / findPegPoint3 up to the loop
cs_pegFrom(params, minAmount, dyForMin) ==
  IF ~dyForMin.ok THEN [ret |-> TRUE, out |-> dyForMin, low |-> 0, high |-> 0]
  ELSE IF dyForMin.val < minAmount THEN [ret |-> TRUE, out |-> Val(0), low |-> 0, high |-> 0]
  ELSE [ret |-> FALSE, out |-> Val(0), low |-> minAmount, high |-> Sum(params.balances)]

cs_pegStart(params, i, j) == cs_pegFrom(params, PRECISION, cs_dyN(params, i, j, PRECISION))

----------------------------------------------------------------------------
(* Pools and arguments of the calls *)

\* findPegPoint's loop is followed for at most MaxRounds rounds
MaxRounds == 257

\* the `precision` argument: 0, 1 and the default 10 * PRECISION
\* the in-call searches are entered on intervals 5 * 2^e wide, e up to MaxExp
MaxExp == 260

SearchExps == {2, MaxExp - 10, MaxExp}

Precisions == {0, 1, 10 * PRECISION}

\* indices of a call on an n-coin pool: -1, the n valid ones, and n
Indices(n) == -1..n

SsAmounts == Amounts \cup {10, 48}

SsPool(xp, A, baseFee, feeMultiplier) ==
  [xp |-> xp, A |-> A, baseFee |-> baseFee, feeMultiplier |-> feeMultiplier]

\* normalized pools: balances, A (Ann = A * A_PRECISION * N), fee, multiplier
SsPools ==
  { SsPool(<<10, 12>>, 10, 4, 0),
    SsPool(<<10, 29>>, 1, 1, 1000),
    SsPool(<<20, 5>>, 10, 0, 0),
    SsPool(<<100, 100>>, 10, 4, 200),
    SsPool(<<633, 2>>, 1, 4, 0),
    SsPool(<<7, 9, 11>>, 10, 4, 200),
    SsPool(<<0, 0>>, 10, 4, 0),
    SsPool(<<5, 0>>, 10, 4, 0) }

SsAnn(p) == computeAnn(p.A, Len(p.xp))

\* balances and A of the further pools getD is called on
DBalances == {1, 2, 7, 40, 300}

DAmps == {1, 10, 100}

SsDPools == { SsPool(<<a, b>>, A, 0, 0) : a \in DBalances, b \in DBalances, A \in DAmps }

ExAmounts == Amounts \cup {10, 36}

ExPool(balances, rates, A, fee, offpegFeeMultiplier) ==
  [balances |-> balances, rates |-> rates, A |-> A, fee |-> fee,
   offpegFeeMultiplier |-> offpegFeeMultiplier]

\* exact-precision pools (ExactPoolParams); the last five are an empty pool,
\* and pools the solver rejects: a zero balance, a zero rate, A = 0, and an
\* empty pool with A = 0
ExPools ==
  { ExPool(<<20, 30>>, <<100, 100>>, 10, 4, 500),
    ExPool(<<20, 30>>, <<100, 100>>, 1, 0, 0),
    ExPool(<<10, 100>>, <<1000, 100>>, 10, 4, 0),
    ExPool(<<40, 40>>, <<150, 100>>, 10, 4, 200),
    ExPool(<<30, 20, 25>>, <<100, 100, 100>>, 10, 4, 200),
    ExPool(<<0, 0>>, <<100, 100>>, 10, 4, 0),
    ExPool(<<0, 30>>, <<100, 100>>, 10, 4, 0),
    ExPool(<<20, 30>>, <<0, 100>>, 10, 4, 0),
    ExPool(<<20, 30>>, <<100, 100>>, 0, 4, 0),
    ExPool(<<0, 0>>, <<100, 100>>, 0, 4, 0) }

\* a pool with low amplification, on which the truncations of the two solvers
\* are of the size of a small swap
ExDustPools == { ExPool(<<49, 36>>, <<100, 100>>, 2, 4, 200) }

ExDPools ==
  { ExPool(<<a, b>>, <<100, 100>>, A, 0, 0) : a \in DBalances, b \in DBalances, A \in DAmps }

CsAmounts == Amounts \cup {10, 50, 100}

CsPool2(balances, precisions, priceScale, D, A, gamma, midFee, outFee) ==
  [A |-> A, gamma |-> gamma, D |-> D, midFee |-> midFee, outFee |-> outFee, feeGamma |-> 10,
   priceScale |-> priceScale, balances |-> balances, precisions |-> precisions]

\* 2-coin CryptoSwap pools (TwocryptoParams); the last four are pools the
\* solver rejects: a zero balance, D = 0, A = 0, gamma = 0
Cs2Pools ==
  { CsPool2(<<100, 100>>, <<1, 1>>, 100, 200, 40, 10, 1, 10),
    CsPool2(<<400, 200>>, <<1, 1>>, 200, 800, 40, 10, 3, 3),
    CsPool2(<<10, 100>>, <<10, 1>>, 100, 200, 40, 10, 1, 10),
    CsPool2(<<300, 300>>, <<1, 1>>, 100, 600, 40, 10, 3, 3),
    CsPool2(<<100, 0>>, <<1, 1>>, 100, 200, 40, 10, 1, 10),
    CsPool2(<<100, 100>>, <<1, 1>>, 100, 0, 40, 10, 1, 10),
    CsPool2(<<100, 100>>, <<1, 1>>, 100, 200, 0, 10, 1, 10),
    CsPool2(<<100, 100>>, <<1, 1>>, 100, 200, 40, 0, 1, 10) }

\* calls the entry guards let through with a negative amplification (they
\* reject A = 0 only): with every argument positive no round of the loop was
\* seen to overshoot, with A < 0 rounds do
Cs2OvershootPools ==
  { CsPool2(<<100, 400>>, <<1, 1>>, 100, 200, -40, 100, 1, 10),
    CsPool2(<<100, 400>>, <<1, 1>>, 100, 50, -2, 50, 1, 10) }

CsPool3(balances, precisions, priceScales, D, A, gamma, midFee, outFee) ==
  [A |-> A, gamma |-> gamma, D |-> D, midFee |-> midFee, outFee |-> outFee, feeGamma |-> 10,
   priceScales |-> priceScales, balances |-> balances, precisions |-> precisions]

\* 3-coin CryptoSwap pools (TricryptoParams); the last two are pools the
\* solver rejects
Cs3Pools ==
  { CsPool3(<<100, 100, 100>>, <<1, 1, 1>>, <<100, 100>>, 300, 40, 10, 1, 10),
    CsPool3(<<400, 200, 100>>, <<1, 1, 1>>, <<200, 400>>, 1200, 40, 10, 3, 3),
    CsPool3(<<100, 0, 100>>, <<1, 1, 1>>, <<100, 100>>, 300, 40, 10, 1, 10),
    CsPool3(<<100, 100, 100>>, <<1, 1, 1>>, <<100, 100>>, 300, 0, 10, 1, 10) }

\* a 2-coin pool whose balance 0 is so small next to D that K0_i is 0
Cs2ThinPools ==
  { CsPool2(<<1, 100>>, <<1, 1>>, 100, 400, 40, 100, 1, 10) }

Cs3OvershootPools ==
  { CsPool3(<<400, 10, 400>>, <<1, 1, 1>>, <<100, 100>>, 100, -10, 100, 1, 10) }

\* the scaled balances a caller of the CryptoSwap kernel passes
CsXp(p) ==
  IF Len(p.balances) = 2
  THEN scaleBalances(p.balances, p.precisions, p.priceScale)
  ELSE scaleBalances3(p.balances, p.precisions, p.priceScales)

NoArg == [i |-> 0, j |-> 0, amt |-> 0, D |-> 0, precision |-> 0]

\* the argument x of a kernel call: balance i after a deposit of a
NewBalance(xp, i, a) == IF InRange(xp, i) THEN At(xp, i) + a ELSE a

Call(i, j, amt, D, precision) ==
  [i |-> i, j |-> j, amt |-> amt, D |-> D, precision |-> precision]

NoPool == [balances |-> <<>>]

----------------------------------------------------------------------------
(* The caller: one action per library call *)

Init ==
  /\ op = "idle"
  /\ pool = NoPool
  /\ arg = NoArg
  /\ res = Val(0)
  /\ newton = NoNewton
  /\ search = NoSearch

\* a call that returns (or throws) at once
Done(name, p, a, r) ==
  /\ op = "idle"
  /\ op' = name
  /\ pool' = p
  /\ arg' = a
  /\ res' = r
  /\ newton' = NoNewton
  /\ search' = NoSearch

SsGetD ==
  /\ op = "idle"
  /\ \E p \in SsPools \cup SsDPools :
       Done("ss_getD", p, NoArg, ss_getD(p.xp, SsAnn(p)))

SsGetY ==
  /\ op = "idle"
  /\ \E p \in SsPools :
     \E i \in Indices(Len(p.xp)), j \in Indices(Len(p.xp)), a \in SsAmounts :
       LET rD == ss_getD(p.xp, SsAnn(p))
       IN /\ rD.ok
          /\ Done("ss_getY", p, Call(i, j, NewBalance(p.xp, i, a), rD.val, 0),
                  ss_getY(i, j, NewBalance(p.xp, i, a), p.xp, SsAnn(p), rD.val))

SsGetYD ==
  /\ op = "idle"
  /\ \E p \in SsPools :
     \E i \in Indices(Len(p.xp)), d \in SsAmounts :
       LET rD == ss_getD(p.xp, SsAnn(p))
       IN /\ rD.ok
          /\ rD.val >= d
          /\ Done("ss_getYD", p, Call(i, i, 0, rD.val - d, 0),
                  ss_getYD(i, p.xp, SsAnn(p), rD.val - d))

SsGetDy ==
  /\ op = "idle"
  /\ \E p \in SsPools :
     \E i \in Indices(Len(p.xp)), j \in Indices(Len(p.xp)), dx \in SsAmounts :
       Done("ss_getDy", p, Call(i, j, dx, 0, 0),
            ss_getDy(i, j, dx, p.xp, SsAnn(p), p.baseFee, p.feeMultiplier))

SsGetDx ==
  /\ op = "idle"
  /\ \E p \in SsPools :
     \E i \in Indices(Len(p.xp)), j \in Indices(Len(p.xp)), dy \in SsAmounts :
       Done("ss_getDx", p, Call(i, j, dy, 0, 0),
            ss_getDx(i, j, dy, p.xp, SsAnn(p), p.baseFee, p.feeMultiplier))

ExGetD ==
  /\ op = "idle"
  /\ \E p \in ExPools \cup ExDPools :
       Done("ex_getD", p, NoArg,
            ex_getD(getXp(p.balances, p.rates), p.A * A_PRECISION, Len(p.balances)))

ExGetY ==
  /\ op = "idle"
  /\ \E p \in ExPools :
     \E i \in Indices(Len(p.balances)), j \in Indices(Len(p.balances)), a \in ExAmounts :
       LET xp == getXp(p.balances, p.rates)
           rD == ex_getD(xp, p.A * A_PRECISION, Len(xp))
       IN /\ rD.ok
          /\ Done("ex_getY", p, Call(i, j, NewBalance(xp, i, a), rD.val, 0),
                  ex_getY(i, j, NewBalance(xp, i, a), xp, p.A * A_PRECISION, rD.val, Len(xp)))

ExGetYD ==
  /\ op = "idle"
  /\ \E p \in ExPools :
     \E i \in Indices(Len(p.balances)), d \in ExAmounts :
       LET xp == getXp(p.balances, p.rates)
           rD == ex_getD(xp, p.A * A_PRECISION, Len(xp))
       IN /\ rD.ok
          /\ rD.val >= d
          /\ Done("ex_getYD", p, Call(i, i, 0, rD.val - d, 0),
                  ex_getYD(p.A * A_PRECISION, i, xp, rD.val - d, Len(xp)))

GetDyExact ==
  /\ op = "idle"
  /\ \E p \in ExPools \cup ExDustPools :
     \E i \in Indices(Len(p.balances)), j \in Indices(Len(p.balances)), dx \in ExAmounts :
       Done("getDyExact", p, Call(i, j, dx, 0, 0), getDyExact(i, j, dx, p))

GetDxExact ==
  /\ op = "idle"
  /\ \E p \in ExPools :
     \E i \in Indices(Len(p.balances)), j \in Indices(Len(p.balances)), dy \in Amounts \cup {10} :
       Done("getDxExact", p, Call(i, j, dy, 0, 0), getDxExact(i, j, dy, p))

CsNewtonY ==
  /\ op = "idle"
  /\ \E p \in Cs2Pools, i \in Indices(2), a \in CsAmounts :
       LET x == [CsXp(p) EXCEPT ![1] = @ + a]
       IN Done("newtonY", p, Call(i, i, a, p.D, 0), newtonY(p.A, p.gamma, x, p.D, i))

CsNewtonY3 ==
  /\ op = "idle"
  /\ \E p \in Cs3Pools, i \in Indices(3), a \in CsAmounts :
       LET x == [CsXp(p) EXCEPT ![1] = @ + a]
       IN Done("newtonY3", p, Call(i, i, a, p.D, 0), newtonY3(p.A, p.gamma, x, p.D, i))

\* a call that returned a tuple of amounts
RetAmounts(a) ==
  [ok |-> TRUE, val |-> 0, amounts |-> a, err |-> "none", iters |-> 0, conv |-> TRUE]

\* balances[k] + amounts[k] for every coin
AddAmounts(balances, amounts) == [k \in 1..Len(balances) |-> balances[k] + amounts[k]]

\* calcTokenAmount / calcTokenAmount3: D1 on a first deposit (totalSupply = 0),
\* else totalSupply * (D1 - D0) / D0
calcTokenAmount(params, amounts, totalSupply) ==
  LET withD0(D0) ==
        LET withD1(D1) ==
              IF totalSupply = 0 THEN Val(D1)
              ELSE IF D0 = 0 THEN Err("ZERO_D")
              ELSE Val(TDiv(totalSupply * (D1 - D0), D0))
        IN Bind(calcD(params.A, params.gamma,
                      CsXp([params EXCEPT !.balances = AddAmounts(params.balances, amounts)])),
                withD1)
  IN Bind(calcD(params.A, params.gamma, CsXp(params)), withD0)

\* the solver and the unscaling of the pool's size
cs_newtonYN(params, xp, D, i) ==
  IF Len(params.balances) = 2 THEN newtonY(params.A, params.gamma, xp, D, i)
  ELSE newtonY3(params.A, params.gamma, xp, D, i)

cs_unscaleN(params, dy, i) ==
  IF Len(params.balances) = 2 THEN unscaleOutput2(dy, i, params.precisions, params.priceScale)
  ELSE unscaleOutput3(dy, i, params.precisions, params.priceScales)

\* the end of calcWithdrawOneCoin: dy = xp[i] - newY, the fee, the unscaling
cs_withdrawn(params, xp, i, dy) ==
  IF dy < 0 THEN Val(0)
  ELSE IF cs_afterFee(dy, cs_dynamicFee(xp, params.feeGamma, params.midFee, params.outFee)) <= 0
  THEN Val(0)
  ELSE cs_clamp(cs_unscaleN(params, cs_afterFee(dy, cs_dynamicFee(xp, params.feeGamma,
                                                                  params.midFee, params.outFee)), i))

\* calcWithdrawOneCoin / calcWithdrawOneCoin3
calcWithdrawOneCoin(params, tokenAmount, i, totalSupply) ==
  IF i < 0 \/ i > Len(params.balances) - 1 THEN Val(0)
  ELSE IF totalSupply = 0 THEN Err("SUPPLY_ZERO")
  ELSE IF tokenAmount = 0 THEN Val(0)
  ELSE IF tokenAmount > totalSupply THEN Err("EXCEEDS_SUPPLY")
  ELSE IF tokenAmount = totalSupply THEN Val(At(params.balances, i))
  ELSE
    LET withD0(D0) ==
          LET withY(newY) == cs_withdrawn(params, CsXp(params), i, At(CsXp(params), i) - newY)
          IN Bind(cs_newtonYN(params, CsXp(params),
                              D0 - TDiv(tokenAmount * D0, totalSupply), i), withY)
    IN Bind(calcD(params.A, params.gamma, CsXp(params)), withD0)

\* the proportional share rounded up instead of down
calcRemoveLiquidity_roundedUp(params, tokenAmount, totalSupply) ==
  IF totalSupply = 0 THEN RetAmounts([k \in 1..Len(params.balances) |-> 0])
  ELSE IF tokenAmount > totalSupply THEN Err("EXCEEDS_SUPPLY")
  ELSE RetAmounts([k \in 1..Len(params.balances) |->
                     TDiv(params.balances[k] * tokenAmount + totalSupply - 1, totalSupply)])

\* stableswap.ts calcRemoveLiquidity: zeros when the supply is 0, else each
\* balance times tokenAmount / totalSupply, whatever tokenAmount is
ss_calcRemoveLiquidity(tokenAmount, xp, totalSupply) ==
  IF totalSupply = 0 THEN RetAmounts([k \in 1..Len(xp) |-> 0])
  ELSE RetAmounts([k \in 1..Len(xp) |-> TDiv(xp[k] * tokenAmount, totalSupply)])

\* calcRemoveLiquidity / calcRemoveLiquidity3: zeros when the supply is 0,
\* else each balance times tokenAmount / totalSupply
calcRemoveLiquidity(params, tokenAmount, totalSupply) ==
  IF totalSupply = 0 THEN RetAmounts([k \in 1..Len(params.balances) |-> 0])
  ELSE IF tokenAmount > totalSupply THEN Err("EXCEEDS_SUPPLY")
  ELSE RetAmounts([k \in 1..Len(params.balances) |->
                     TDiv(params.balances[k] * tokenAmount, totalSupply)])

\* the arguments of the liquidity calls
Supplies == {0, 100, 200}

TokenAmounts == {0, 7, 50, 100, 300}

Deposits(n) == [1..n -> {0, 10}]

LiqCall(i, tokenAmount, amounts, totalSupply) ==
  [i |-> i, j |-> 0, amt |-> tokenAmount, D |-> 0, precision |-> 0,
   amounts |-> amounts, totalSupply |-> totalSupply]

LiqPools == { p \in Cs2Pools \cup Cs3Pools : p.A # 0 /\ p.gamma # 0 }

CsCalcTokenAmount ==
  /\ op = "idle"
  /\ \E p \in LiqPools, totalSupply \in Supplies :
     \E amounts \in Deposits(Len(p.balances)) :
       Done("calcTokenAmount", p, LiqCall(0, 0, amounts, totalSupply),
            calcTokenAmount(p, amounts, totalSupply))

CsCalcWithdrawOneCoin ==
  /\ op = "idle"
  /\ \E p \in LiqPools, totalSupply \in Supplies, tokenAmount \in TokenAmounts :
     \E i \in Indices(Len(p.balances)) :
       Done("calcWithdrawOneCoin", p, LiqCall(i, tokenAmount, <<>>, totalSupply),
            calcWithdrawOneCoin(p, tokenAmount, i, totalSupply))

CsCalcRemoveLiquidity ==
  /\ op = "idle"
  /\ \E p \in LiqPools, totalSupply \in Supplies, tokenAmount \in TokenAmounts :
       Done("calcRemoveLiquidity", p, LiqCall(0, tokenAmount, <<>>, totalSupply),
            calcRemoveLiquidity(p, tokenAmount, totalSupply))

\* the ramp with a falling parameter stepped upward instead of downward
ramp_added(initial, future, elapsed, duration) ==
  IF initial > future THEN initial + TDiv((initial - future) * elapsed, duration)
  ELSE initial + TDiv((future - initial) * elapsed, duration)

\* currentA / currentGamma inside the ramp: the step is computed on the
\* positive difference and subtracted when the parameter falls
ramp(initial, future, elapsed, duration) ==
  IF initial > future THEN initial - TDiv((initial - future) * elapsed, duration)
  ELSE initial + TDiv((future - initial) * elapsed, duration)

getAGammaAtTime(initialA, futureA, initialGamma, futureGamma, initialTime, futureTime, currentTime) ==
  IF futureTime <= initialTime THEN Err("INVALID_RAMP")
  ELSE IF currentTime >= futureTime THEN RetAmounts(<<futureA, futureGamma>>)
  ELSE IF currentTime <= initialTime THEN RetAmounts(<<initialA, initialGamma>>)
  ELSE RetAmounts(<<ramp(initialA, futureA, currentTime - initialTime,
                         futureTime - initialTime),
                    ramp(initialGamma, futureGamma, currentTime - initialTime,
                         futureTime - initialTime)>>)

\* the arguments of getAGammaAtTime
RampAs == {7, 100, 200}

RampGammas == {1000, 2000}

RampStart == 10

RampEnds == {5, 10, 13, 20}

MaxTime == 24

RampCall(initialA, futureA, initialGamma, futureGamma, initialTime, futureTime, currentTime) ==
  [balances |-> <<>>, initialA |-> initialA, futureA |-> futureA,
   initialGamma |-> initialGamma, futureGamma |-> futureGamma,
   initialTime |-> initialTime, futureTime |-> futureTime, currentTime |-> currentTime]

GetAGammaAtTime ==
  /\ op = "idle"
  /\ \E initialA \in RampAs, futureA \in RampAs, initialGamma \in RampGammas,
        futureGamma \in RampGammas, futureTime \in RampEnds, currentTime \in 0..MaxTime :
       Done("getAGammaAtTime",
            RampCall(initialA, futureA, initialGamma, futureGamma, RampStart, futureTime,
                     currentTime),
            NoArg,
            getAGammaAtTime(initialA, futureA, initialGamma, futureGamma, RampStart,
                            futureTime, currentTime))

\* BigInt.prototype.toString(): the decimal digits, most significant first,
\* after a "-" for a negative value
DigitChar(d) == <<"0", "1", "2", "3", "4", "5", "6", "7", "8", "9">>[d + 1]

RECURSIVE Digits(_)
Digits(n) == IF n < 10 THEN <<DigitChar(n)>> ELSE Digits(n \div 10) \o <<DigitChar(n % 10)>>

toString(n) == IF n < 0 THEN <<"-">> \o Digits(-n) ELSE Digits(n)

\* a call that returned a string
RetText(t) ==
  [ok |-> TRUE, val |-> 0, text |-> t, err |-> "none", iters |-> 0, conv |-> TRUE]

\* cryptoswap.ts validateSlippageBps: throws outside 0..10000
validateSlippageBps(slippageBps) == slippageBps < 0 \/ slippageBps > 10000

\* amount * (10000 - slippageBps) / BPS_DENOMINATOR
withSlippageDown(amount, slippageBps) == TDiv(amount * (10000 - slippageBps), BPS_DENOMINATOR)

\* amount * (10000 + slippageBps) / BPS_DENOMINATOR
withSlippageUp(amount, slippageBps) == TDiv(amount * (10000 + slippageBps), BPS_DENOMINATOR)

\* cryptoswap.ts calculateMinDy and calculateMaxDx
cs_calculateMinDy(expectedOutput, slippageBps) ==
  IF validateSlippageBps(slippageBps) THEN Err("INVALID_SLIPPAGE")
  ELSE RetText(toString(withSlippageDown(expectedOutput, slippageBps)))

cs_calculateMaxDx(expectedInput, slippageBps) ==
  IF validateSlippageBps(slippageBps) THEN Err("INVALID_SLIPPAGE")
  ELSE RetText(toString(withSlippageUp(expectedInput, slippageBps)))

\* cryptoswap.ts getAmountOut / getAmountOut3 and getAmountIn / getAmountIn3
cs_getAmountOut(params, i, j, dx, slippageBps) ==
  IF validateSlippageBps(slippageBps) THEN Err("INVALID_SLIPPAGE")
  ELSE LET rest(amountOut) ==
             RetAmounts(<<amountOut, withSlippageDown(amountOut, slippageBps)>>)
       IN Bind(cs_dyN(params, i, j, dx), rest)

cs_getAmountIn(params, i, j, dy, slippageBps) ==
  IF validateSlippageBps(slippageBps) THEN Err("INVALID_SLIPPAGE")
  ELSE LET rest(amountIn) ==
             RetAmounts(<<amountIn, withSlippageUp(amountIn, slippageBps)>>)
       IN Bind(cs_dx(params, i, j, dy), rest)

\* stableswap.ts calculateMinDy, getAmountOut and getAmountIn: slippageBps
\* is used as it comes
ss_calculateMinDy(expectedOutput, slippageBps) ==
  RetText(toString(TDiv(expectedOutput * (10000 - slippageBps), 10000)))

ss_getAmountOut(i, j, dx, xp, Ann, baseFee, feeMultiplier, slippageBps) ==
  LET rest(amountOut) ==
        RetAmounts(<<amountOut, TDiv(amountOut * (10000 - slippageBps), 10000)>>)
  IN Bind(ss_getDy(i, j, dx, xp, Ann, baseFee, feeMultiplier), rest)

ss_getAmountIn(i, j, dy, xp, Ann, baseFee, feeMultiplier, slippageBps) ==
  LET rest(amountIn) ==
        RetAmounts(<<amountIn, TDiv(amountIn * (10000 + slippageBps), 10000)>>)
  IN Bind(ss_getDx(i, j, dy, xp, Ann, baseFee, feeMultiplier), rest)

\* the arguments of the slippage helpers
SlippageBps == {-1, 0, 100, 10000, 10001}

ExpectedAmounts == {0, 7, 1000}

SlipCall(i, j, amount, slippageBps) ==
  [i |-> i, j |-> j, amt |-> amount, D |-> 0, precision |-> 0, bps |-> slippageBps]

CsCalculateMinDy ==
  /\ op = "idle"
  /\ \E expectedOutput \in ExpectedAmounts, slippageBps \in SlippageBps :
       Done("cs_calculateMinDy", NoPool, SlipCall(0, 0, expectedOutput, slippageBps),
            cs_calculateMinDy(expectedOutput, slippageBps))

CsCalculateMaxDx ==
  /\ op = "idle"
  /\ \E expectedInput \in ExpectedAmounts, slippageBps \in SlippageBps :
       Done("cs_calculateMaxDx", NoPool, SlipCall(0, 0, expectedInput, slippageBps),
            cs_calculateMaxDx(expectedInput, slippageBps))

CsGetAmountOut ==
  /\ op = "idle"
  /\ \E p \in Cs2Pools \cup Cs3Pools, dx \in {0, 10}, slippageBps \in SlippageBps :
     \E i \in 0..1, j \in 0..1 :
       Done("cs_getAmountOut", p, SlipCall(i, j, dx, slippageBps),
            cs_getAmountOut(p, i, j, dx, slippageBps))

CsGetAmountIn ==
  /\ op = "idle"
  /\ \E p \in Cs2Pools \cup Cs3Pools, dy \in {0, 10}, slippageBps \in SlippageBps :
     \E i \in 0..1, j \in 0..1 :
       Done("cs_getAmountIn", p, SlipCall(i, j, dy, slippageBps),
            cs_getAmountIn(p, i, j, dy, slippageBps))

SsCalculateMinDy ==
  /\ op = "idle"
  /\ \E expectedOutput \in ExpectedAmounts, slippageBps \in SlippageBps :
       Done("ss_calculateMinDy", NoPool, SlipCall(0, 0, expectedOutput, slippageBps),
            ss_calculateMinDy(expectedOutput, slippageBps))

SsGetAmountOut ==
  /\ op = "idle"
  /\ \E p \in SsPools, dx \in {0, 10}, slippageBps \in SlippageBps :
     \E i \in 0..1, j \in 0..1 :
       Done("ss_getAmountOut", p, SlipCall(i, j, dx, slippageBps),
            ss_getAmountOut(i, j, dx, p.xp, SsAnn(p), p.baseFee, p.feeMultiplier,
                            slippageBps))

SsGetAmountIn ==
  /\ op = "idle"
  /\ \E p \in SsPools, dy \in {0, 10}, slippageBps \in SlippageBps :
     \E i \in 0..1, j \in 0..1 :
       Done("ss_getAmountIn", p, SlipCall(i, j, dy, slippageBps),
            ss_getAmountIn(i, j, dy, p.xp, SsAnn(p), p.baseFee, p.feeMultiplier,
                           slippageBps))

SsCalcRemoveLiquidity ==
  /\ op = "idle"
  /\ \E p \in SsPools, totalSupply \in Supplies, tokenAmount \in TokenAmounts :
       Done("ss_calcRemoveLiquidity", p, LiqCall(0, tokenAmount, <<>>, totalSupply),
            ss_calcRemoveLiquidity(tokenAmount, p.xp, totalSupply))

\* the arguments of a direct call of the StableSwap dynamicFee: two
\* balances, the base fee and the off-peg multiplier
MaxFeeBalance == 12

FeeMultipliers == {0, FEE_DENOMINATOR, FEE_DENOMINATOR + 50, 2 * FEE_DENOMINATOR, 5 * FEE_DENOMINATOR}

BaseFees == {0, 4, 30}

FeePair(xpi, xpj, fee, feeMultiplier) ==
  [balances |-> <<xpi, xpj>>, fee |-> fee, feeMultiplier |-> feeMultiplier]

SsDynamicFee ==
  /\ op = "idle"
  /\ \E xpi \in 0..MaxFeeBalance, xpj \in 0..MaxFeeBalance, baseFee \in BaseFees,
        feeMultiplier \in FeeMultipliers :
       Done("ss_dynamicFee", FeePair(xpi, xpj, baseFee, feeMultiplier), NoArg,
            ss_dynamicFee(xpi, xpj, baseFee, feeMultiplier))

ExDynamicFee ==
  /\ op = "idle"
  /\ \E xpi \in 0..MaxFeeBalance, xpj \in 0..MaxFeeBalance, fee \in BaseFees,
        feeMultiplier \in FeeMultipliers :
       Done("ex_dynamicFee", FeePair(xpi, xpj, fee, feeMultiplier), NoArg,
            ex_dynamicFee(xpi, xpj, fee, feeMultiplier))

\* the arguments of a direct call of the CryptoSwap dynamicFee
FeeBalances == {0, 1, 5, 100, 400}

FeeGammas == {0, 1, 10, 100}

FeeLevels == {0, 1, 3, 10, 50}

FeeCall(xp, feeGamma, midFee, outFee) ==
  [balances |-> xp, feeGamma |-> feeGamma, midFee |-> midFee, outFee |-> outFee]

CsDynamicFee ==
  /\ op = "idle"
  /\ \E n \in {2, 3} :
     \E xp \in [1..n -> FeeBalances], feeGamma \in FeeGammas,
        midFee \in FeeLevels, outFee \in FeeLevels :
       /\ midFee <= outFee
       /\ Done("cs_dynamicFee", FeeCall(xp, feeGamma, midFee, outFee), NoArg,
               Val(cs_dynamicFee(xp, feeGamma, midFee, outFee)))

CsCalcD ==
  /\ op = "idle"
  /\ \E p \in Cs2Pools \cup Cs3Pools :
       Done("calcD", p, NoArg, calcD(p.A, p.gamma, CsXp(p)))

CsGetDy ==
  /\ op = "idle"
  /\ \E p \in Cs2Pools, i \in Indices(2), j \in Indices(2), dx \in CsAmounts :
       Done("cs_getDy", p, Call(i, j, dx, 0, 0), cs_getDy(p, i, j, dx))

CsGetDy3 ==
  /\ op = "idle"
  /\ \E p \in Cs3Pools, i \in Indices(3), j \in Indices(3),
        dx \in CsAmounts :
       Done("cs_getDy3", p, Call(i, j, dx, 0, 0), cs_getDy3(p, i, j, dx))

CsGetDx ==
  /\ op = "idle"
  /\ \E p \in Cs2Pools, i \in Indices(2), j \in Indices(2), dy \in CsAmounts :
       Done("cs_getDx", p, Call(i, j, dy, 0, 0), cs_getDx(p, i, j, dy))

CsGetDx3 ==
  /\ op = "idle"
  /\ \E p \in Cs3Pools, i \in Indices(3), j \in Indices(3),
        dy \in CsAmounts :
       Done("cs_getDx3", p, Call(i, j, dy, 0, 0), cs_getDx3(p, i, j, dy))

CsGetSpotPrice ==
  /\ op = "idle"
  /\ \E p \in Cs2Pools, i \in Indices(2), j \in Indices(2) :
       Done("getSpotPrice", p, Call(i, j, 0, 0, 0), getSpotPrice(p, i, j))

CsGetSpotPrice3 ==
  /\ op = "idle"
  /\ \E p \in Cs3Pools, i \in Indices(3), j \in Indices(3) :
       Done("getSpotPrice3", p, Call(i, j, 0, 0, 0), getSpotPrice3(p, i, j))

\* cryptoswap.ts getEffectivePrice / getEffectivePrice3: the spot price for a
\* zero amount, else dy * PRECISION / dx
getEffectivePrice(params, i, j, dx) ==
  IF dx = 0 THEN cs_spot(params, i, j)
  ELSE LET rest(dy) == Val(TDiv(dy * PRECISION, dx))
       IN Bind(cs_dyN(params, i, j, dx), rest)

\* (spotPrice - effectivePrice) * BPS_DENOMINATOR / spotPrice, floored at 0
cs_impact(spotPrice, effectivePrice) ==
  IF spotPrice = 0 THEN 0
  ELSE Max2(TDiv((spotPrice - effectivePrice) * BPS_DENOMINATOR, spotPrice), 0)

\* cryptoswap.ts getPriceImpact / getPriceImpact3
getPriceImpact(params, i, j, dx) ==
  LET withSpot(spotPrice) ==
        LET withEffective(effectivePrice) == Val(cs_impact(spotPrice, effectivePrice))
        IN Bind(getEffectivePrice(params, i, j, dx), withEffective)
  IN Bind(cs_spot(params, i, j), withSpot)

\* a call that returned a quote record
RetQuote(q) ==
  [ok |-> TRUE, val |-> 0, quote |-> q, err |-> "none", iters |-> 0, conv |-> TRUE]

\* the effective price quoteSwap computes inline: 0 for a zero amount
quote_effectivePrice(amountOut, dx) ==
  IF dx > 0 THEN TDiv(amountOut * PRECISION, dx) ELSE 0

\* the fee amount of a quote: 0 when the fee rate is FEE_DENOMINATOR or more
quote_feeAmount(amountOut, fee) ==
  IF fee >= FEE_DENOMINATOR THEN 0 ELSE TDiv(amountOut * fee, FEE_DENOMINATOR - fee)

quote_record(params, dx, spotPrice, amountOut) ==
  [amountOut |-> amountOut,
   fee |-> quote_feeAmount(amountOut,
             cs_dynamicFee(CsXp(params), params.feeGamma, params.midFee, params.outFee)),
   priceImpact |-> cs_impact(spotPrice, quote_effectivePrice(amountOut, dx)),
   effectivePrice |-> quote_effectivePrice(amountOut, dx),
   spotPrice |-> spotPrice]

\* cryptoswap.ts quoteSwap / quoteSwap3
quoteSwap(params, i, j, dx) ==
  LET withSpot(spotPrice) ==
        LET withOut(amountOut) == RetQuote(quote_record(params, dx, spotPrice, amountOut))
        IN Bind(cs_dyN(params, i, j, dx), withOut)
  IN Bind(cs_spot(params, i, j), withSpot)

\* the pools and amounts the analytics helpers are called with
QuotePools == Cs2Pools \cup Cs3Pools

QuoteAmounts == {0, 1, 10, 50}

CsGetEffectivePrice ==
  /\ op = "idle"
  /\ \E p \in QuotePools :
     \E i \in Indices(Len(p.balances)), j \in Indices(Len(p.balances)), dx \in QuoteAmounts :
       Done("getEffectivePrice", p, Call(i, j, dx, 0, 0), getEffectivePrice(p, i, j, dx))

CsGetPriceImpact ==
  /\ op = "idle"
  /\ \E p \in QuotePools :
     \E i \in Indices(Len(p.balances)), j \in Indices(Len(p.balances)), dx \in QuoteAmounts :
       Done("getPriceImpact", p, Call(i, j, dx, 0, 0), getPriceImpact(p, i, j, dx))

CsQuoteSwap ==
  /\ op = "idle"
  /\ \E p \in QuotePools :
     \E i \in Indices(Len(p.balances)), j \in Indices(Len(p.balances)), dx \in QuoteAmounts :
       Done("quoteSwap", p, Call(i, j, dx, 0, 0), quoteSwap(p, i, j, dx))

\* JavaScript arrays are held by reference. A call reaches the array its
\* caller passed ("caller") and the one it allocates itself ("local"), which
\* starts with the caller's elements.
Allocated(a) == [caller |-> a, local |-> a]

\* a copy that is the caller's array under another name
spread_aliased(ref) == ref

\* `[...xp]` and `[balances[0], balances[1]]`: the reference held by the
\* variable bound to the copy of the array at ref
spread(ref) == "local"

\* `a[i] = v` through the reference ref
store(heap, ref, i, v) == [heap EXCEPT ![ref] = [@ EXCEPT ![i + 1] = v]]

\* the arrays after stableswap.ts getDy: `newXp = [...xp]; newXp[i] = xp[i] + dx`
\* (for an index outside xp the sum throws before the write)
ss_getDy_heap(i, dx, xp) ==
  IF ~InRange(xp, i) THEN Allocated(xp)
  ELSE store(Allocated(xp), spread("caller"), i, At(xp, i) + dx)

\* the arrays after cryptoswap.ts getDy / getDy3: the guards return before
\* `newBalances[i] = newBalances[i] + dx`; scaleBalances returns a new array
cs_getDy_heap(params, i, j, dx) ==
  LET n == Len(params.balances)
  IN IF i = j \/ i < 0 \/ i > n - 1 \/ j < 0 \/ j > n - 1 \/ dx = 0
     THEN Allocated(params.balances)
     ELSE store(Allocated(params.balances), spread("caller"), i, At(params.balances, i) + dx)

\* a call together with the array the caller held before it
FrameCall(i, j, dx, before) ==
  [i |-> i, j |-> j, amt |-> dx, D |-> 0, precision |-> 0, before |-> before]

\* stableswap.ts getDy, with the caller's xp as the call leaves it
SsGetDyFrame ==
  /\ op = "idle"
  /\ \E p \in SsPools :
     \E i \in Indices(Len(p.xp)), j \in Indices(Len(p.xp)), dx \in {0, 1, 10} :
       Done("ss_getDy_frame", [p EXCEPT !.xp = ss_getDy_heap(i, dx, p.xp).caller],
            FrameCall(i, j, dx, p.xp),
            ss_getDy(i, j, dx, p.xp, SsAnn(p), p.baseFee, p.feeMultiplier))

\* cryptoswap.ts getDy / getDy3, with the caller's balances as the call
\* leaves them
CsGetDyFrame ==
  /\ op = "idle"
  /\ \E p \in Cs2Pools \cup Cs3Pools :
     \E i \in Indices(Len(p.balances)), j \in Indices(Len(p.balances)), dx \in {0, 1, 10} :
       Done("cs_getDy_frame", [p EXCEPT !.balances = cs_getDy_heap(p, i, j, dx).caller],
            FrameCall(i, j, dx, p.balances), cs_dyN(p, i, j, dx))

\* stableswap.ts findPegPoint: the early return, or entry into the loop
SsFindPegPoint ==
  /\ op = "idle"
  /\ \E p \in SsPools :
     \E i \in Indices(Len(p.xp)), j \in Indices(Len(p.xp)),
        precision \in Precisions :
       LET s == ss_pegStart(i, j, p.xp)
       IN /\ op' = "ss_findPegPoint"
          /\ pool' = p
          /\ arg' = Call(i, j, 0, 0, precision)
          /\ res' = s.out
          /\ newton' = NoNewton
          /\ search' = IF s.ret THEN NoSearch
                       ELSE [active |-> TRUE, low |-> s.low, high |-> s.high, rounds |-> 0,
                             exp |-> 0]

\* cryptoswap.ts findPegPoint / findPegPoint3: the early return, or entry
\* into the loop
CsFindPegPoint ==
  /\ op = "idle"
  /\ \E p \in Cs2Pools \cup Cs3Pools :
     \E i \in Indices(Len(p.balances)),
        j \in Indices(Len(p.balances)), precision \in Precisions :
       LET s == cs_pegStart(p, i, j)
       IN /\ op' = IF Len(p.balances) = 2 THEN "cs_findPegPoint" ELSE "cs_findPegPoint3"
          /\ pool' = p
          /\ arg' = Call(i, j, 0, 0, precision)
          /\ res' = s.out
          /\ newton' = NoNewton
          /\ search' = IF s.ret THEN NoSearch
                       ELSE [active |-> TRUE, low |-> s.low, high |-> s.high, rounds |-> 0,
                             exp |-> 0]

\* the oracle of the running search at amount mid
PegOracle(mid) ==
  IF op = "ss_findPegPoint"
  THEN ss_getDy(arg.i, arg.j, mid, pool.xp, SsAnn(pool), pool.baseFee, pool.feeMultiplier)
  ELSE cs_dyN(pool, arg.i, arg.j, mid)

\* a round of the loop body with the oracle's outcome dy; a throwing oracle
\* ends the call
PegRound(dy) ==
  IF ~dy.ok
  THEN /\ res' = dy
       /\ search' = [search EXCEPT !.active = FALSE]
  ELSE /\ res' = res
       /\ search' = [search EXCEPT !.low = pegRound(search.low, search.high, dy.val).low,
                                   !.high = pegRound(search.low, search.high, dy.val).high,
                                   !.rounds = @ + 1]

\* one evaluation of `while (high - low > precision)`: a round of the body,
\* or the exit with `return low`
PegStep ==
  /\ op \in {"ss_findPegPoint", "cs_findPegPoint", "cs_findPegPoint3"}
  /\ search.active
  /\ search.rounds < MaxRounds
  /\ UNCHANGED <<op, pool, arg, newton>>
  /\ IF search.high - search.low > arg.precision
     THEN PegRound(PegOracle(TDiv(search.low + search.high, 2)))
     ELSE /\ res' = Val(search.low)
          /\ search' = [search EXCEPT !.active = FALSE]

\* the interval of a binary search after one more round, the oracle having
\* answered below (low = mid) or not (high = mid). While the interval is
\* (high - low) * 2^exp wide with exp > 0, either half is
\* (high - low) * 2^(exp - 1) wide and is kept relative to its own lower end.
searchHalve(s, below) ==
  IF s.exp > 0 THEN [s EXCEPT !.exp = @ - 1, !.rounds = @ + 1]
  ELSE IF below THEN [s EXCEPT !.low = TDiv(s.low + s.high, 2), !.rounds = @ + 1]
  ELSE [s EXCEPT !.high = TDiv(s.low + s.high, 2), !.rounds = @ + 1]

\* the interval is at most one unit wide
searchNarrow(s) == s.exp = 0 /\ s.high - s.low <= 1

\* getDxExact's binary search entered with high = maxBalance * 10 = 5 * 2^e,
\* an upper bound wider than the amounts the quotes above are computed on
GetDxExactSearch ==
  /\ op = "idle"
  /\ \E e \in SearchExps :
       /\ op' = "getDxExact_search"
       /\ pool' = NoPool
       /\ arg' = NoArg
       /\ res' = Val(0)
       /\ newton' = NoNewton
       /\ search' = [active |-> TRUE, low |-> 0, high |-> 5, rounds |-> 0, exp |-> e]

\* CryptoSwap getDx / getDx3's binary search entered with high = 5 * 2^e
CsGetDxSearch ==
  /\ op = "idle"
  /\ \E e \in SearchExps :
       /\ op' = "cs_getDx_search"
       /\ pool' = NoPool
       /\ arg' = NoArg
       /\ res' = Val(0)
       /\ newton' = NoNewton
       /\ search' = [active |-> TRUE, low |-> 0, high |-> 5, rounds |-> 0, exp |-> e]

\* one pass of `for (let k = 0; k < 256; k++)` in getDxExact: the exit after
\* 256 rounds with `return high`, the return when mid === low, or a round
\* with either answer of the oracle
GetDxExactSearchStep ==
  /\ op = "getDxExact_search"
  /\ search.active
  /\ UNCHANGED <<op, pool, arg, newton>>
  /\ IF search.rounds = 256
     THEN /\ res' = Ret(search.high, search.rounds, FALSE)
          /\ search' = [search EXCEPT !.active = FALSE]
     ELSE IF search.exp = 0 /\ TDiv(search.low + search.high, 2) = search.low
     THEN /\ res' = Ret(ex_narrowed(search.low, search.high), search.rounds, TRUE)
          /\ search' = [search EXCEPT !.active = FALSE]
     ELSE /\ res' = res
          /\ \E below \in BOOLEAN : search' = searchHalve(search, below)

\* one pass of `for (iter < MAX_ITERATIONS)` in CryptoSwap getDx / getDx3:
\* the exit after MAX_ITERATIONS rounds with `return high`, or a round that
\* returns once high - low <= 1
CsGetDxSearchStep ==
  /\ op = "cs_getDx_search"
  /\ search.active
  /\ UNCHANGED <<op, pool, arg, newton>>
  /\ IF search.rounds = MAX_ITERATIONS
     THEN /\ res' = Ret(search.high, search.rounds, FALSE)
          /\ search' = [search EXCEPT !.active = FALSE]
     ELSE \E below \in BOOLEAN :
            LET s == searchHalve(search, below)
            IN IF searchNarrow(s)
               THEN /\ res' = Ret(s.high, s.rounds, TRUE)
                    /\ search' = [s EXCEPT !.active = FALSE]
               ELSE /\ res' = res
                    /\ search' = s

\* the caller takes the outcome and is ready for the next call
\* the kernel call (N, x, i) the running Newton loop belongs to
NewtonN == IF op = "newtonY_loop" THEN 2 ELSE 3

NewtonX == [CsXp(pool) EXCEPT ![1] = @ + arg.amt]

NewtonEntry ==
  IF op = "newtonY_loop" THEN newtonY_entry(pool.A, pool.gamma, NewtonX, pool.D, arg.i)
  ELSE newtonY3_entry(pool.A, pool.gamma, NewtonX, pool.D, arg.i)

NewtonTerms(e) == cs_terms(NewtonN, pool.A, pool.gamma, e.S0, pool.D, e.K0_i, newton.y)

\* the divisors of the round about to run
NewtonDivisors ==
  cs_round_divisors(pool.A, pool.gamma, pool.D, newton.y, NewtonTerms(NewtonEntry))

\* newtonY / newtonY3 entered: a division faults, a guard throws, or the loop starts at the
\* first estimate
NewtonStart(name, p, a, ds, e) ==
  /\ op' = name
  /\ pool' = p
  /\ arg' = a
  /\ search' = NoSearch
  /\ IF HasZeroDivisor(ds)
     THEN /\ res' = DivisionFault(0)
          /\ newton' = NoNewton
     ELSE IF e.ok
     THEN /\ res' = Val(0)
          /\ newton' = [active |-> TRUE, y |-> e.y, prev |-> e.y, rounds |-> 0,
                        halved |-> FALSE]
     ELSE /\ res' = e
          /\ newton' = NoNewton

CsNewtonYLoop ==
  /\ op = "idle"
  /\ \E p \in Cs2Pools \cup Cs2OvershootPools \cup Cs2ThinPools, i \in Indices(2),
        a \in CsAmounts :
       NewtonStart("newtonY_loop", p, Call(i, i, a, p.D, 0),
                   newtonY_entry_divisors(p.A, p.gamma, [CsXp(p) EXCEPT ![1] = @ + a], p.D, i),
                   newtonY_entry(p.A, p.gamma, [CsXp(p) EXCEPT ![1] = @ + a], p.D, i))

CsNewtonY3Loop ==
  /\ op = "idle"
  /\ \E p \in Cs3Pools \cup Cs3OvershootPools, i \in Indices(3), a \in CsAmounts :
       NewtonStart("newtonY3_loop", p, Call(i, i, a, p.D, 0), <<>>,
                   newtonY3_entry(p.A, p.gamma, [CsXp(p) EXCEPT ![1] = @ + a], p.D, i))

\* the outcome s of one round from the iterate newton.y
NewtonRound(e, t, s) ==
  /\ newton' = [active |-> ~s.done,
                y |-> IF s.done THEN (IF s.out.ok THEN s.out.val ELSE newton.y) ELSE s.v,
                prev |-> newton.y,
                rounds |-> newton.rounds + 1,
                halved |-> cs_overshoot1(t) \/ cs_overshoot2(pool.D, newton.y, t)]
  /\ res' = IF s.done THEN s.out ELSE res

\* one round of the running loop, or the throw after MAX_ITERATIONS rounds
NewtonStep ==
  /\ op \in {"newtonY_loop", "newtonY3_loop"}
  /\ newton.active
  /\ UNCHANGED <<op, pool, arg, search>>
  /\ IF newton.rounds >= MAX_ITERATIONS
     THEN /\ res' = ErrAt("NO_CONVERGE", newton.rounds)
          /\ newton' = [newton EXCEPT !.active = FALSE, !.halved = FALSE]
     ELSE IF HasZeroDivisor(NewtonDivisors)
     THEN /\ res' = DivisionFault(newton.rounds)
          /\ newton' = [newton EXCEPT !.active = FALSE, !.halved = FALSE]
     ELSE NewtonRound(NewtonEntry, NewtonTerms(NewtonEntry),
                      cs_newton_round(NewtonN, pool.A, pool.gamma, NewtonEntry.S0, pool.D,
                                      NewtonEntry.K0_i, NewtonEntry.limit,
                                      Going(newton.y, newton.rounds)))

Return ==
  /\ op # "idle"
  /\ ~search.active
  /\ ~newton.active
  /\ op' = "idle"
  /\ pool' = NoPool
  /\ arg' = NoArg
  /\ res' = Val(0)
  /\ newton' = NoNewton
  /\ search' = NoSearch

Next ==
  \/ SsGetD \/ SsGetY \/ SsGetYD \/ SsGetDy \/ SsGetDx \/ SsFindPegPoint
  \/ ExGetD \/ ExGetY \/ ExGetYD \/ GetDyExact \/ GetDxExact
  \/ SsDynamicFee \/ ExDynamicFee
  \/ CsNewtonY \/ CsNewtonY3 \/ CsCalcD \/ CsDynamicFee
  \/ CsCalcTokenAmount \/ CsCalcWithdrawOneCoin \/ CsCalcRemoveLiquidity
  \/ SsCalcRemoveLiquidity \/ GetAGammaAtTime
  \/ CsCalculateMinDy \/ CsCalculateMaxDx \/ CsGetAmountOut \/ CsGetAmountIn
  \/ SsCalculateMinDy \/ SsGetAmountOut \/ SsGetAmountIn
  \/ CsGetEffectivePrice \/ CsGetPriceImpact \/ CsQuoteSwap
  \/ SsGetDyFrame \/ CsGetDyFrame
  \/ CsGetDy \/ CsGetDy3 \/ CsGetDx \/ CsGetDx3
  \/ CsGetSpotPrice \/ CsGetSpotPrice3 \/ CsFindPegPoint
  \/ PegStep
  \/ CsNewtonYLoop \/ CsNewtonY3Loop \/ NewtonStep
  \/ GetDxExactSearch \/ GetDxExactSearchStep \/ CsGetDxSearch \/ CsGetDxSearchStep
  \/ Return

Spec == Init /\ [][Next]_vars

----------------------------------------------------------------------------
(* Properties of the quotes *)

\* the number of coins of the pool the current call was made on
PoolN == IF "xp" \in DOMAIN pool THEN Len(pool.xp) ELSE Len(pool.balances)

\* the call's indices are distinct and both inside [0, N)
DistinctInRange ==
  /\ arg.i # arg.j
  /\ arg.i \in 0..(PoolN - 1)
  /\ arg.j \in 0..(PoolN - 1)

ForwardQuotes == {"ss_getDy", "getDyExact", "cs_getDy", "cs_getDy3"}

InverseQuotes == {"ss_getDx", "getDxExact", "cs_getDx", "cs_getDx3"}

\* C1: non-negativity. On distinct in-range indices and any amount >= 0,
\* every forward quote (normalized getDy, getDyExact, CryptoSwap getDy and
\* getDy3) and every inverse quote (getDx, getDxExact, getDx3) that returns
\* a value returns one that is >= 0.
C1_NonNegative ==
  (op \in ForwardQuotes \cup InverseQuotes /\ DistinctInRange /\ res.ok)
    => res.val >= 0

\* C2: upper bound. On valid indices i # j and every dx >= 0, the value
\* returned by getDyExact and by CryptoSwap getDy / getDy3 never exceeds
\* balances[j], the pool's reserve of the output token.
C2_UpperBound ==
  (op \in {"getDyExact", "cs_getDy", "cs_getDy3"} /\ DistinctInRange /\ res.ok)
    => res.val <= At(pool.balances, arg.j)

\* a swap of more than the whole output reserve that pays out a positive
\* amount
C2_LargeSwapPaysOut ==
  /\ op = "getDyExact"
  /\ DistinctInRange
  /\ arg.amt > At(pool.balances, arg.j)
  /\ res.ok
  /\ res.val > 0

\* C3: monotonicity. On a fixed snapshot and valid indices i # j, if
\* 0 < dx1 < dx2 and both calls return, getDy(i, j, dx1) <= getDy(i, j, dx2),
\* for getDyExact and for CryptoSwap getDy.
C3_Monotone ==
  /\ (op = "getDyExact" /\ DistinctInRange /\ res.ok)
       => \A dx1 \in 1..(arg.amt - 1) :
            LET r == getDyExact(arg.i, arg.j, dx1, pool)
            IN r.ok => r.val <= res.val
  /\ (op = "cs_getDy" /\ DistinctInRange /\ res.ok)
       => \A dx1 \in 1..(arg.amt - 1) :
            LET r == cs_getDy(pool, arg.i, arg.j, dx1)
            IN r.ok => r.val <= res.val

SwapHelpers ==
  {"getDyExact", "getDxExact", "cs_getDy", "cs_getDy3", "cs_getDx", "cs_getDx3"}

\* C4: the swap helpers return 0 silently on invalid input. getDyExact,
\* getDxExact and CryptoSwap getDy, getDy3, getDx, getDx3 return exactly 0,
\* without failing, when i = j, an index is outside [0, N) or the amount is
\* 0, and so does getSpotPrice on such indices, whatever the other pool
\* parameters are.
C4_InvalidInputReturnsZero ==
  /\ (op \in SwapHelpers /\ (~DistinctInRange \/ arg.amt = 0))
       => (res.ok /\ res.val = 0)
  /\ (op = "getSpotPrice" /\ ~DistinctInRange)
       => (res.ok /\ res.val = 0)

\* a zero amount quoted on a pool whose A the solver rejects, answered by 0
C4_ZeroAmountOnRejectedPool ==
  /\ op = "getDyExact"
  /\ DistinctInRange
  /\ arg.amt = 0
  /\ pool.A = 0
  /\ res.ok
  /\ res.val = 0

\* C5: the kernel primitives are strict. getY and getYD, in the normalized
\* module and in the exact-precision module, fail with an error, and never
\* return a value, when called with i = j or with an index outside [0, N).
C5_KernelsRejectBadIndices ==
  /\ (op \in {"ss_getY", "ex_getY"} /\ ~DistinctInRange) => ~res.ok
  /\ (op \in {"ss_getYD", "ex_getYD"} /\ arg.i \notin 0..(PoolN - 1)) => ~res.ok

\* C6: normalized getDy returns exactly 0 whenever i = j, i or j lies
\* outside [0, xp.length) (negative indices included), or dx = 0.
C6_NormalizedGetDyZeroOnInvalid ==
  (op = "ss_getDy" /\ (~DistinctInRange \/ arg.amt = 0))
    => (res.ok /\ res.val = 0)

\* C7: the inverse guarantee. Whenever getDxExact(i, j, dy, params) returns
\* a non-zero dx, getDyExact(i, j, dx, params) >= dy.
C7_InverseGuarantee ==
  (op = "getDxExact" /\ res.ok /\ res.val # 0)
    => LET r == getDyExact(arg.i, arg.j, res.val, pool)
       IN r.ok /\ r.val >= arg.amt

\* getDxExact has bisected and returned a positive dx
C7_BisectedToPositive ==
  /\ op = "getDxExact"
  /\ res.ok
  /\ res.val > 0
  /\ res.iters > 0

\* C8: roundtrip. On valid indices i # j and every dx >= 1 for which
\* dy = getDy(i, j, dx) is positive, |getDx(i, j, dy) - dx| <= max(1, dx/50),
\* for CryptoSwap getDx / getDy and for normalized getDx / getDy.
C8_Roundtrip ==
  /\ (op = "ss_getDy" /\ DistinctInRange /\ arg.amt >= 1 /\ res.ok /\ res.val > 0)
       => LET r == ss_getDx(arg.i, arg.j, res.val, pool.xp, SsAnn(pool),
                            pool.baseFee, pool.feeMultiplier)
          IN r.ok /\ Abs(r.val - arg.amt) <= Max2(1, TDiv(arg.amt, 50))
  /\ (op = "cs_getDy" /\ DistinctInRange /\ arg.amt >= 1 /\ res.ok /\ res.val > 0)
       => LET r == cs_getDx(pool, arg.i, arg.j, res.val)
          IN r.ok /\ Abs(r.val - arg.amt) <= Max2(1, TDiv(arg.amt, 50))

NewtonSolvers ==
  {"ss_getD", "ss_getY", "ss_getYD", "ex_getD", "ex_getY", "ex_getYD",
   "newtonY", "newtonY3", "calcD"}

\* C9: every Newton solver (getD, getY, getYD in both StableSwap modules;
\* newtonY, newtonY3, calcD) runs at most 255 iterations, and a call that
\* has not met its convergence criterion by then fails; it never returns
\* the last, unconverged iterate.
C9_NewtonBoundedAndStrict ==
  op \in NewtonSolvers
    => /\ res.iters <= MAX_ITERATIONS
       /\ res.ok => res.conv

\* C10: every binary search (getDxExact, CryptoSwap getDx / getDx3,
\* findPegPoint / findPegPoint3 in both modules) ends after at most 256
\* rounds, for every snapshot and every precision argument.
C10_SearchesBounded ==
  /\ search.rounds <= 256
  /\ op \in {"getDxExact", "cs_getDx", "cs_getDx3"} => res.iters <= 256

\* C11: a binary search (the 256 rounds of getDxExact, the 255 rounds of
\* CryptoSwap getDx / getDx3) that exhausts its round cap before the
\* interval has narrowed fails with an error instead of returning a value.
C11_ExhaustedSearchFails ==
  (/\ op \in {"getDxExact_search", "cs_getDx_search", "getDxExact", "cs_getDx", "cs_getDx3"}
   /\ ~search.active
   /\ ~res.conv
   /\ res.iters >= MAX_ITERATIONS)
    => ~res.ok

\* the balances getD was called on
GetDBalances ==
  IF op = "ss_getD" THEN pool.xp ELSE getXp(pool.balances, pool.rates)

\* C12: getD returns 0, without failing, for every balance vector whose
\* entries sum to 0, irrespective of the amplification argument, in the
\* exact-precision module and in the normalized module.
C12_EmptyPoolGetDZero ==
  (op \in {"ss_getD", "ex_getD"} /\ Sum(GetDBalances) = 0)
    => (res.ok /\ res.val = 0)

\* C13: getD fails with the ZERO_BALANCE error whenever at least one balance
\* is 0 and at least one is positive; it never returns a value for such a
\* pool and never reaches a division by the zero balance (exact-precision
\* and normalized getD).
C13_PartialZeroIsZeroBalance ==
  (op \in {"ss_getD", "ex_getD"} /\ HasZero(GetDBalances) /\ Sum(GetDBalances) > 0)
    => (~res.ok /\ res.err = "ZERO_BALANCE")

\* C14: D bounds. For every StableSwap pool with strictly positive balances
\* and positive amplification, the value D returned by getD satisfies
\* 0 < D and D <= (sum of xp) + 2.
C14_DBounds ==
  (op \in {"ss_getD", "ex_getD"} /\ ~HasZero(GetDBalances) /\ pool.A > 0 /\ res.ok)
    => (0 < res.val /\ res.val <= Sum(GetDBalances) + 2)

\* getD returned, on an imbalanced pool, a D strictly below the sum
C14_ImbalancedD ==
  /\ op = "ss_getD"
  /\ ~HasZero(GetDBalances)
  /\ pool.A > 0
  /\ res.ok
  /\ res.conv
  /\ 0 < res.val
  /\ res.val < Sum(GetDBalances)


\* C15: a Newton round of newtonY / newtonY3 that detects an overshoot
\* (yfprime negative, or y_plus < y_minus) replaces y by half the previous
\* estimate, floored at 1, and the loop goes on or returns that estimate: the
\* round throws nothing and leaves y >= 1.
C15_OvershootHalves ==
  (op \in {"newtonY_loop", "newtonY3_loop"} /\ newton.halved)
    => /\ newton.y = Max2(TDiv(newton.prev, 2), 1)
       /\ newton.y >= 1
       /\ (newton.active \/ res.ok)

\* an overshoot at the estimate 1 left the estimate at the floor 1, and the
\* loop is still running
C15_HalvedAndRunning ==
  /\ op \in {"newtonY_loop", "newtonY3_loop"}
  /\ newton.halved
  /\ newton.active
  /\ newton.prev = 1
  /\ newton.y = 1


\* the errors newtonY declares
NewtonYErrors ==
  {"INVALID_INDEX", "INVALID_LENGTH", "INVALID_A", "INVALID_GAMMA", "ZERO_BALANCE",
   "ZERO_D", "ZERO_Y", "ZERO_FPRIME", "ZERO_K0", "NO_CONVERGE"}

\* C16: newtonY never divides by zero: at entry and in every round each
\* divisor (x_j, D, gamma, A, _g1k0, y, fprime, K0) is non-zero when the
\* division runs, and a call that fails fails with one of the errors newtonY
\* declares, never with the RangeError of a division by 0n.
C16_NoDivisionByZero ==
  op = "newtonY_loop" =>
    /\ res.ok \/ res.err \in NewtonYErrors
    /\ ~HasZeroDivisor(newtonY_entry_divisors(pool.A, pool.gamma, NewtonX, pool.D, arg.i))
    /\ (newton.active /\ newton.rounds < MAX_ITERATIONS) => ~HasZeroDivisor(NewtonDivisors)

\* a round found K0 = 0 where it was about to divide by it, and the call
\* failed with the declared error
C16_ZeroK0Declared ==
  /\ op = "newtonY_loop"
  /\ ~newton.active
  /\ ~res.ok
  /\ res.err = "ZERO_K0"
  /\ NewtonTerms(NewtonEntry).K0 = 0
  /\ ~cs_overshoot1(NewtonTerms(NewtonEntry))


\* C17: CryptoSwap dynamicFee, called with non-negative balances and
\* feeGamma and with midFee <= outFee, returns a fee f with
\* midFee <= f <= outFee.
C17_FeeBetweenMidAndOut ==
  op = "cs_dynamicFee" =>
    (res.ok /\ pool.midFee <= res.val /\ res.val <= pool.outFee)

\* an imbalanced pool's fee lies strictly between the two fees
C17_StrictBlend ==
  /\ op = "cs_dynamicFee"
  /\ res.ok
  /\ Sum(pool.balances) > 0
  /\ ~HasZero(pool.balances)
  /\ pool.midFee < res.val
  /\ res.val < pool.outFee


\* the StableSwap fee call of the state, and the same function at another
\* split <<a, b>> of the pair
FeeCalled == op \in {"ss_dynamicFee", "ex_dynamicFee"}

FeeAt(a, b) ==
  IF op = "ss_dynamicFee" THEN ss_dynamicFee(a, b, pool.fee, pool.feeMultiplier)
  ELSE ex_dynamicFee(a, b, pool.fee, pool.feeMultiplier)

FeeTotal == pool.balances[1] + pool.balances[2]

\* the splits of the same total at least as far from balance as the state's
FartherSplits ==
  { a \in 0..FeeTotal : Abs(2 * a - FeeTotal) >= Abs(pool.balances[1] - pool.balances[2]) }

\* C18 (as stated): for multiplier > FEE_DENOMINATOR and a fixed total, the
\* fee is largest at balance and falls as the pair moves away from balance:
\* no split farther from balance has a larger fee.
C18_PeaksAtBalance ==
  (FeeCalled /\ pool.feeMultiplier > FEE_DENOMINATOR /\ FeeTotal > 0 /\ res.ok)
    => \A a \in FartherSplits : FeeAt(a, FeeTotal - a).val <= res.val

\* C18 (amended): for multiplier > FEE_DENOMINATOR and a fixed total, the fee
\* is smallest at balance, where it is base_fee, and never falls as the pair
\* moves away from balance: every split farther from balance has a fee at
\* least as large, up to base_fee * multiplier / FEE_DENOMINATOR.
C18_RisesWithImbalance ==
  (FeeCalled /\ pool.feeMultiplier > FEE_DENOMINATOR /\ FeeTotal > 0 /\ res.ok)
    => \A a \in FartherSplits :
         /\ FeeAt(a, FeeTotal - a).ok
         /\ FeeAt(a, FeeTotal - a).val >= res.val
         /\ FeeAt(a, FeeTotal - a).val <= TDiv(pool.fee * pool.feeMultiplier, FEE_DENOMINATOR)

\* an imbalanced pair pays strictly more than the same total at balance
C18_ImbalancedPaysMore ==
  /\ FeeCalled
  /\ pool.feeMultiplier > FEE_DENOMINATOR
  /\ pool.balances[1] # pool.balances[2]
  /\ FeeTotal % 2 = 0
  /\ res.ok
  /\ res.val > FeeAt(FeeTotal \div 2, FeeTotal \div 2).val

\* C19: for multiplier > FEE_DENOMINATOR and x_i + x_j > 0 the StableSwap
\* dynamicFee returns a fee with
\* base_fee <= fee <= base_fee * multiplier / FEE_DENOMINATOR, and the fee is
\* base_fee when x_i = x_j.
C19_FeeBounds ==
  (FeeCalled /\ pool.feeMultiplier > FEE_DENOMINATOR /\ FeeTotal > 0)
    => /\ res.ok
       /\ pool.fee <= res.val
       /\ res.val <= TDiv(pool.fee * pool.feeMultiplier, FEE_DENOMINATOR)
       /\ (pool.balances[1] = pool.balances[2]) => res.val = pool.fee

\* a balanced pair with a multiplier above FEE_DENOMINATOR pays the base fee
C19_BalancedPaysBase ==
  /\ op = "ex_dynamicFee"
  /\ pool.feeMultiplier > FEE_DENOMINATOR
  /\ pool.balances[1] = pool.balances[2]
  /\ FeeTotal > 0
  /\ pool.fee > 0
  /\ res.ok
  /\ res.val = pool.fee


\* the invariant D0 of the pool a liquidity call is made on
LiquidityD0 == calcD(pool.A, pool.gamma, CsXp(pool))

\* C20: every liquidity call (calcTokenAmount, calcWithdrawOneCoin,
\* calcRemoveLiquidity, 2-coin and 3-coin) made with totalSupply = 0 on a
\* pool whose invariant D0 is positive fails with SUPPLY_ZERO.
C20_ZeroSupplyFails ==
  (/\ op \in {"calcTokenAmount", "calcWithdrawOneCoin", "calcRemoveLiquidity"}
   /\ arg.totalSupply = 0
   /\ LiquidityD0.ok
   /\ LiquidityD0.val > 0)
    => (~res.ok /\ res.err = "SUPPLY_ZERO")


\* a proportional withdrawal of the state, and the balances it was asked on
RemoveCalled == op \in {"calcRemoveLiquidity", "ss_calcRemoveLiquidity"}

RemoveBalances == IF op = "ss_calcRemoveLiquidity" THEN pool.xp ELSE pool.balances

\* C21: for totalSupply > 0 and 0 <= lp <= totalSupply, calcRemoveLiquidity
\* returns for each coin k exactly floor(balances[k] * lp / totalSupply): the
\* one amount a with a * totalSupply <= balances[k] * lp < (a + 1) * totalSupply.
C21_Proportional ==
  (RemoveCalled /\ arg.totalSupply > 0 /\ 0 <= arg.amt /\ arg.amt <= arg.totalSupply)
    => /\ res.ok
       /\ Len(res.amounts) = Len(RemoveBalances)
       /\ \A k \in 1..Len(RemoveBalances) :
            /\ res.amounts[k] * arg.totalSupply <= RemoveBalances[k] * arg.amt
            /\ RemoveBalances[k] * arg.amt < (res.amounts[k] + 1) * arg.totalSupply

\* a partial withdrawal whose share of coin 0 is rounded down
C21_ShareRoundedDown ==
  /\ op = "calcRemoveLiquidity"
  /\ arg.totalSupply > 0
  /\ 0 < arg.amt
  /\ arg.amt < arg.totalSupply
  /\ res.ok
  /\ res.amounts[1] > 0
  /\ res.amounts[1] * arg.totalSupply < pool.balances[1] * arg.amt

\* C30: calcRemoveLiquidity never pays out more than the pool holds: when it
\* returns, each amount is at most the coin's balance, and a request with
\* lp > totalSupply is rejected.
C30_NeverOverpays ==
  RemoveCalled =>
    /\ res.ok => \A k \in 1..Len(RemoveBalances) : res.amounts[k] <= RemoveBalances[k]
    /\ (arg.amt > arg.totalSupply /\ arg.totalSupply > 0) => ~res.ok


\* initial + (future - initial) * (currentTime - initialTime)
\*   / (futureTime - initialTime), the quotient truncated as BigInt `/` does
Interpolated(initial, future) ==
  initial + TDiv((future - initial) * (pool.currentTime - pool.initialTime),
                 pool.futureTime - pool.initialTime)

\* v is within one unit of the straight line from initial to future, and
\* between the two
OnTheLine(v, initial, future) ==
  /\ Abs(v * (pool.futureTime - pool.initialTime)
         - (initial * (pool.futureTime - pool.initialTime)
            + (future - initial) * (pool.currentTime - pool.initialTime)))
       < pool.futureTime - pool.initialTime
  /\ (initial <= v /\ v <= future) \/ (future <= v /\ v <= initial)

\* C22: for futureTime > initialTime, getAGammaAtTime returns the initial
\* pair at or before initialTime, the future pair at or after futureTime,
\* and in between the linear interpolation of A and of gamma, each on its
\* own and whether it rises or falls.
C22_RampInterpolation ==
  (op = "getAGammaAtTime" /\ pool.futureTime > pool.initialTime)
    => /\ res.ok
       /\ pool.currentTime <= pool.initialTime
            => res.amounts = <<pool.initialA, pool.initialGamma>>
       /\ pool.currentTime >= pool.futureTime
            => res.amounts = <<pool.futureA, pool.futureGamma>>
       /\ (pool.initialTime < pool.currentTime /\ pool.currentTime < pool.futureTime)
            => /\ res.amounts = <<Interpolated(pool.initialA, pool.futureA),
                                  Interpolated(pool.initialGamma, pool.futureGamma)>>
               /\ OnTheLine(res.amounts[1], pool.initialA, pool.futureA)
               /\ OnTheLine(res.amounts[2], pool.initialGamma, pool.futureGamma)

\* inside a ramp, A falling and gamma rising, both strictly between their
\* endpoints and A's step rounded
C22_MidRampMixed ==
  /\ op = "getAGammaAtTime"
  /\ pool.initialTime < pool.currentTime
  /\ pool.currentTime < pool.futureTime
  /\ res.ok
  /\ pool.futureA < res.amounts[1]
  /\ res.amounts[1] < pool.initialA
  /\ pool.initialGamma < res.amounts[2]
  /\ res.amounts[2] < pool.futureGamma
  /\ ((pool.initialA - pool.futureA) * (pool.currentTime - pool.initialTime))
       % (pool.futureTime - pool.initialTime) # 0


SlippageHelpers ==
  {"cs_calculateMinDy", "cs_calculateMaxDx", "cs_getAmountOut", "cs_getAmountIn",
   "ss_calculateMinDy", "ss_getAmountOut", "ss_getAmountIn"}

\* C23: every slippage helper (calculateMinDy, calculateMaxDx, getAmountOut,
\* getAmountIn, StableSwap and CryptoSwap) called with bps < 0 or
\* bps > 10000 fails with INVALID_SLIPPAGE and returns no amount.
C23_SlippageOutOfRangeFails ==
  (op \in SlippageHelpers /\ (arg.bps < 0 \/ arg.bps > 10000))
    => (~res.ok /\ res.err = "INVALID_SLIPPAGE")


\* the helpers that take a swap amount and return a number
AmountHelpers ==
  {"getEffectivePrice", "getPriceImpact", "cs_getDy", "cs_getDy3", "cs_getDx", "cs_getDx3"}

\* C24: every analytics helper that takes a swap amount returns 0, without
\* throwing, when that amount is 0: getEffectivePrice(i, j, 0), getPriceImpact(i, j, 0),
\* getDy(i, j, 0) and getDx(i, j, 0).
C24_ZeroAmountReturnsZero ==
  (op \in AmountHelpers /\ arg.amt = 0) => (res.ok /\ res.val = 0)

\* the standalone helpers' answers for the call a quote was made for
QuoteAgrees(q, p, a) ==
  /\ cs_dyN(p, a.i, a.j, a.amt) = Val(q.amountOut)
  /\ cs_spot(p, a.i, a.j) = Val(q.spotPrice)
  /\ getEffectivePrice(p, a.i, a.j, a.amt) = Val(q.effectivePrice)
  /\ getPriceImpact(p, a.i, a.j, a.amt) = Val(q.priceImpact)

\* C29: a quote returned by quoteSwap(params, i, j, dx) carries in amountOut,
\* spotPrice, effectivePrice and priceImpact exactly what getDy, getSpotPrice,
\* getEffectivePrice and getPriceImpact return for the same call.
C29_QuoteMatchesHelpers ==
  (op = "quoteSwap" /\ res.ok) => QuoteAgrees(res.quote, pool, arg)


PegSearches == {"ss_findPegPoint", "cs_findPegPoint", "cs_findPegPoint3"}

\* a peg search has returned the positive amount res.val
PegFound == op \in PegSearches /\ ~search.active /\ res.ok /\ res.val > 0

\* C25: whenever findPegPoint (StableSwap, CryptoSwap 2-coin and 3-coin)
\* returns a positive amount p, the module's own getDy(i, j, p) on the same
\* pool returns at least p.
C25_PegPointPaysAtLeastInput ==
  PegFound => (PegOracle(res.val).ok /\ PegOracle(res.val).val >= res.val)

\* a StableSwap search, which starts from low = 0, moved low in its loop and
\* returned it
C25_PegFoundInLoop == PegFound /\ op = "ss_findPegPoint" /\ search.rounds > 1

C25_CryptoPegFound == PegFound /\ op # "ss_findPegPoint" /\ res.val > PRECISION


\* getDxExact returned a non-zero dx from the `mid === low` exit of its search
NarrowedToDx == op = "getDxExact" /\ res.ok /\ res.val # 0 /\ res.conv /\ res.iters < 256

\* C27: local minimality. When getDxExact(i, j, dy, params) returns a
\* non-zero dx because its interval narrowed to one unit, one unit less is
\* not enough: getDyExact(i, j, dx - 1, params) < dy.
C27_OneLessFallsShort ==
  NarrowedToDx
    => LET r == getDyExact(arg.i, arg.j, res.val - 1, pool)
       IN r.ok /\ r.val < arg.amt

\* a narrowed search whose lower end is a midpoint it has tested
C27_NarrowedAboveTested == NarrowedToDx /\ res.val > 1 /\ res.iters > 1


\* the snapshot after the swap of dx of coin i for dy of coin j
AfterSwap(params, i, j, dx, dy) ==
  [params EXCEPT !.balances = [@ EXCEPT ![i + 1] = @ + dx, ![j + 1] = @ - dy]]

\* getDyExact returned a positive dy
SwapPaid == op = "getDyExact" /\ res.ok /\ res.val > 0

\* C28: a swap followed by the reverse swap never yields a profit. When
\* dy = getDyExact(i, j, dx, params) is positive and params' is params with
\* balances[i] + dx and balances[j] - dy, getDyExact(j, i, dy, params') <= dx.
C28_RoundTripNoProfit ==
  SwapPaid
    => LET back == getDyExact(arg.j, arg.i, res.val, AfterSwap(pool, arg.i, arg.j, arg.amt, res.val))
       IN back.ok /\ back.val <= arg.amt


\* the same call made again on the snapshot the first call left behind
Repeated ==
  IF op = "ss_getDy_frame"
  THEN ss_getDy(arg.i, arg.j, arg.amt, pool.xp, SsAnn(pool), pool.baseFee, pool.feeMultiplier)
  ELSE cs_dyN(pool, arg.i, arg.j, arg.amt)

\* the array the caller passed, as it is after the call
CallerArray == IF op = "ss_getDy_frame" THEN pool.xp ELSE pool.balances

====
